---- MODULE Spec2Model ----
(***************************************************************************)
(* Discovery-and-ranking pipeline of reporadio (package pr_pirate):        *)
(* RepositoryDiscoverer, IssueDiscoverer, GitHubClient and the Repository  *)
(* and Issue models.                                                       *)
(*                                                                         *)
(* Conventions.  An Optional value is a sequence of length at most one:    *)
(* None is <<>> and Some(x) is <<x>>.  A str is a sequence of one-letter   *)
(* strings.  A timestamp is kept as its age, now - t, counted in ticks of  *)
(* 1/TicksPerDay day, so that timedelta comparisons and timedelta.days     *)
(* (a floor) stay distinct.  A float score is kept as an exact integer     *)
(* multiple of 1/10 (or as a fraction num/den).                            *)
(***************************************************************************)
EXTENDS Integers, Sequences, FiniteSets, TLC

\* ------------------------------------------------------------- bounds
TicksPerDay == 2
MaxHits == 2
MaxNames == 2
MaxIssueStream == 2
MaxQueries == 2
MaxFound == 2
MaxAssessed == 2

\* ------------------------------------------------------------ helpers
None == <<>>
Some(x) == <<x>>
Min(a, b) == IF a <= b THEN a ELSE b
Max(a, b) == IF a >= b THEN a ELSE b
Days(d) == d * TicksPerDay
Range(s) == {s[i] : i \in 1..Len(s)}
Take(s, n) == SubSeq(s, 1, Min(Max(n, 0), Len(s)))

RECURSIVE Concat(_)
Concat(ss) == IF ss = <<>> THEN <<>> ELSE Head(ss) \o Concat(Tail(ss))

RECURSIVE SeqsUpTo(_, _)
SeqsUpTo(S, n) ==
    IF n = 0 THEN {<<>>}
    ELSE LET shorter == SeqsUpTo(S, n - 1)
         IN  shorter \cup {Append(s, x) : s \in {t \in shorter : Len(t) = n - 1}, x \in S}

\* ---------------------------------------------- models/repository.py
\* timedelta.days of now - pushed_at: whole days, rounded down.
days_since_push(repo) == repo.pushed_at[1] \div TicksPerDay

\* Repository.activity_score, in tenths.
activity_score_stale(repo) ==
    IF repo.pushed_at = None THEN 0
    ELSE IF days_since_push(repo) <= 7 THEN 10
    ELSE IF days_since_push(repo) <= 30 THEN 2
    ELSE IF days_since_push(repo) <= 90 THEN 5
    ELSE 8

activity_score(repo) ==
    IF repo.pushed_at = None THEN 0
    ELSE IF days_since_push(repo) <= 7 THEN 10
    ELSE IF days_since_push(repo) <= 30 THEN 8
    ELSE IF days_since_push(repo) <= 90 THEN 5
    ELSE 2

\* Repository.is_viable: defined by the model class, called by nothing.
is_viable(repo) ==
    /\ repo.has_issues
    /\ ~repo.archived
    /\ ~repo.disabled
    /\ repo.stars >= 10
    /\ repo.open_issues_count > 0
    /\ repo.language \in {Some(l) : l \in {"Python", "JavaScript", "TypeScript", "Go", "Rust"}}

\* ------------------------------------- discovery/repo_discoverer.py
\* RepositoryDiscoverer.TARGET_TOPICS, two of its five categories, cut to
\* their first topics.
TARGET_TOPICS == [llm |-> <<"llm", "gpt">>, genai |-> <<"generative-ai">>]

SUPPORTED_LANGUAGES == {"Python", "JavaScript", "TypeScript", "Go", "Rust", "Java"}

\* Defaults of discover_repositories' parameters.
min_stars == 10
max_stars == 10000
exclude_archived == TRUE

\* The (category, topic) pairs discover_repositories builds.
TopicsOf(category) ==
    IF category \in DOMAIN TARGET_TOPICS THEN TARGET_TOPICS[category] ELSE <<category>>

RECURSIVE AllTopics(_)
AllTopics(cats) ==
    IF cats = <<>> THEN <<>>
    ELSE [i \in 1..Len(TopicsOf(Head(cats))) |-> <<Head(cats), TopicsOf(Head(cats))[i]>>]
         \o AllTopics(Tail(cats))

\* What the upstream search answers to the query _search_single_topic
\* builds: "topic:<t> stars:<min>..<max> is:public [archived:false]".
QueryMatches(rec) ==
    /\ rec.stars >= min_stars
    /\ rec.stars <= max_stars
    /\ exclude_archived => ~rec.archived

\* The loop of GitHubClient.search_repositories over the upstream result:
\* "for repo in search_result" pulls the next record, and only then
\* "if count >= per_page: break" is looked at.
RECURSIVE SearchLoop(_, _, _, _)
SearchLoop(search_result, per_page, repositories, pulled) ==
    IF search_result = <<>> THEN [repositories |-> repositories, pulled |-> pulled]
    ELSE IF Len(repositories) >= per_page
         THEN [repositories |-> repositories, pulled |-> pulled + 1]
         ELSE SearchLoop(Tail(search_result), per_page,
                         Append(repositories, Head(search_result)), pulled + 1)

\* GitHubClient.search_repositories: the first per_page records of the
\* upstream result.
search_repositories(stream, per_page) == SearchLoop(stream, per_page, <<>>, 0).repositories

\* Repository(**repo_data): the records that validate, in order.
ParseRepositories(datas) == SelectSeq(datas, LAMBDA d : d.valid)

\* A _search_single_topic that loses what its search found.
_search_single_topic_lossy(answer, max_repos) == <<>>

\* _search_single_topic: a failed search is caught and yields [].
_search_single_topic(answer, max_repos) ==
    IF ~answer.ok THEN <<>>
    ELSE ParseRepositories(search_repositories(answer.items, Min(max_repos, 100)))

\* _deduplicate_repositories: first occurrence of a full_name wins.
RECURSIVE DedupFrom(_, _)
DedupFrom(repos, seen) ==
    IF repos = <<>> THEN <<>>
    ELSE IF Head(repos).full_name \notin seen
         THEN <<Head(repos)>> \o DedupFrom(Tail(repos), seen \cup {Head(repos).full_name})
         ELSE DedupFrom(Tail(repos), seen)

\* A dedup that lets the last occurrence of a full_name win.
RECURSIVE _deduplicate_repositories_last(_)
_deduplicate_repositories_last(repos) ==
    IF repos = <<>> THEN <<>>
    ELSE IF \E j \in 2..Len(repos) : repos[j].full_name = Head(repos).full_name
         THEN _deduplicate_repositories_last(Tail(repos))
         ELSE <<Head(repos)>> \o _deduplicate_repositories_last(Tail(repos))

_deduplicate_repositories(repos) == DedupFrom(repos, {})

\* An _is_repository_suitable without the activity check.
_is_repository_suitable_no_activity(repo) ==
    IF ~repo.has_issues \/ repo.archived \/ repo.disabled THEN FALSE
    ELSE IF repo.open_issues_count = 0 THEN FALSE
    ELSE TRUE

\* _is_repository_suitable.
_is_repository_suitable(repo) ==
    IF ~repo.has_issues \/ repo.archived \/ repo.disabled THEN FALSE
    ELSE IF repo.pushed_at # None /\ repo.pushed_at[1] > Days(180) THEN FALSE
    ELSE IF repo.open_issues_count = 0 THEN FALSE
    ELSE TRUE

_filter_repositories(repos) == SelectSeq(repos, _is_repository_suitable)

\* get_top_repositories' key, stars * activity_score * min(issue_density, 1.0)
\* with issue_density = open_issues_count / max(stars, 1), as the fraction
\* num/den (in tenths).
repo_priority_score(repo) ==
    LET s1 == Max(repo.stars, 1)
    IN  [num |-> repo.stars * activity_score(repo) * Min(repo.open_issues_count, s1),
         den |-> s1]

KeyLess(a, b) == a.num * b.den < b.num * a.den
KeyEq(a, b) == a.num * b.den = b.num * a.den

\* sorted(..., key=priority_score, reverse=True): descending and stable.
RECURSIVE InsertByPriority(_, _)
InsertByPriority(sorted, x) ==
    IF sorted = <<>> THEN <<x>>
    ELSE IF KeyLess(repo_priority_score(Head(sorted)), repo_priority_score(x))
         THEN <<x>> \o sorted
         ELSE <<Head(sorted)>> \o InsertByPriority(Tail(sorted), x)

RECURSIVE SortFrom(_, _)
SortFrom(sorted, rest) ==
    IF rest = <<>> THEN sorted
    ELSE SortFrom(InsertByPriority(sorted, Head(rest)), Tail(rest))

\* A sort that puts an element before the elements of equal priority.
RECURSIVE InsertBeforeTies(_, _)
InsertBeforeTies(sorted, x) ==
    IF sorted = <<>> THEN <<x>>
    ELSE IF ~KeyLess(repo_priority_score(x), repo_priority_score(Head(sorted)))
         THEN <<x>> \o sorted
         ELSE <<Head(sorted)>> \o InsertBeforeTies(Tail(sorted), x)

RECURSIVE SortFromUnstable(_, _)
SortFromUnstable(sorted, rest) ==
    IF rest = <<>> THEN sorted
    ELSE SortFromUnstable(InsertBeforeTies(sorted, Head(rest)), Tail(rest))

get_top_repositories_unstable(repos, limit) ==
    IF repos = <<>> THEN <<>> ELSE Take(SortFromUnstable(<<>>, repos), limit)

get_top_repositories(repos, limit) ==
    IF repos = <<>> THEN <<>> ELSE Take(SortFrom(<<>>, repos), limit)

\* ------------------------------------------------- models/issue.py
UpperCase == <<"A", "B", "C", "D", "E", "F", "G", "H", "I", "J", "K", "L", "M",
               "N", "O", "P", "Q", "R", "S", "T", "U", "V", "W", "X", "Y", "Z">>
LowerCase == <<"a", "b", "c", "d", "e", "f", "g", "h", "i", "j", "k", "l", "m",
               "n", "o", "p", "q", "r", "s", "t", "u", "v", "w", "x", "y", "z">>

\* str.lower().
lower(s) ==
    [i \in 1..Len(s) |->
        IF \E k \in 1..26 : UpperCase[k] = s[i]
        THEN LowerCase[CHOOSE k \in 1..26 : UpperCase[k] = s[i]]
        ELSE s[i]]

\* keyword in text.
Contains(text, keyword) ==
    \E i \in 0..(Len(text) - Len(keyword)) : SubSeq(text, i + 1, i + Len(keyword)) = keyword

\* The truth value of an Optional[str]: neither None nor "".
Truthy(opt) == opt # None /\ opt[1] # <<>>

\* The label literals of the source.
L_good_first_issue == <<"g", "o", "o", "d", " ", "f", "i", "r", "s", "t", " ", "i", "s", "s", "u", "e">>
L_good_first_issue_dashed == <<"g", "o", "o", "d", "-", "f", "i", "r", "s", "t", "-", "i", "s", "s", "u", "e">>
L_beginner == <<"b", "e", "g", "i", "n", "n", "e", "r">>
L_easy == <<"e", "a", "s", "y">>
L_bug == <<"b", "u", "g">>
L_enhancement == <<"e", "n", "h", "a", "n", "c", "e", "m", "e", "n", "t">>
L_feature == <<"f", "e", "a", "t", "u", "r", "e">>
L_help_wanted == <<"h", "e", "l", "p", " ", "w", "a", "n", "t", "e", "d">>
L_hacktoberfest == <<"h", "a", "c", "k", "t", "o", "b", "e", "r", "f", "e", "s", "t">>
L_wontfix == <<"w", "o", "n", "t", "f", "i", "x">>
L_invalid == <<"i", "n", "v", "a", "l", "i", "d">>
L_duplicate == <<"d", "u", "p", "l", "i", "c", "a", "t", "e">>
L_question == <<"q", "u", "e", "s", "t", "i", "o", "n">>
L_discussion == <<"d", "i", "s", "c", "u", "s", "s", "i", "o", "n">>
L_needs_design == <<"n", "e", "e", "d", "s", "-", "d", "e", "s", "i", "g", "n">>
L_breaking_change == <<"b", "r", "e", "a", "k", "i", "n", "g", "-", "c", "h", "a", "n", "g", "e">>
L_major == <<"m", "a", "j", "o", "r">>
L_epic == <<"e", "p", "i", "c">>
L_tracking == <<"t", "r", "a", "c", "k", "i", "n", "g">>
L_critical == <<"c", "r", "i", "t", "i", "c", "a", "l">>
L_urgent == <<"u", "r", "g", "e", "n", "t">>

\* Issue.is_good_candidate's label sets.
good_labels == {L_good_first_issue, L_good_first_issue_dashed, L_beginner, L_easy, L_bug,
                L_enhancement, L_feature, L_help_wanted}
bad_labels == {L_wontfix, L_invalid, L_duplicate, L_question, L_discussion, L_needs_design,
               L_breaking_change}

issue_labels(issue) == {lower(issue.labels[i]) : i \in 1..Len(issue.labels)}

\* An is_good_candidate without the bad-label veto.
is_good_candidate_no_veto(issue) ==
    /\ issue.state = "open"
    /\ issue.assignees = <<>>
    /\ issue_labels(issue) \cap good_labels # {}
    /\ issue.comments <= 10
    /\ issue.title # <<>>
    /\ IF Truthy(issue.body) THEN Len(issue.body[1]) >= 50 ELSE TRUE

\* Issue.is_good_candidate.
is_good_candidate(issue) ==
    /\ issue.state = "open"
    /\ issue.assignees = <<>>
    /\ Cardinality(issue_labels(issue) \cap good_labels) > 0
    /\ Cardinality(issue_labels(issue) \cap bad_labels) = 0
    /\ issue.comments <= 10
    /\ issue.title # <<>>
    /\ IF Truthy(issue.body) THEN Len(issue.body[1]) >= 50 ELSE TRUE

\* Issue.age_days: timedelta.days of now - created_at.
age_days(issue) == issue.created_age \div TicksPerDay

\* The float additions of priority_score do not all round to the double
\* nearest the decimal sum: the result's distance from that double, in
\* units in the last place, by the three increments added (in hundredths).
RoundingUlps(t) ==
    CASE t = <<30, 5, 10>> -> 1 []
         t = <<30, 5, -20>> -> 1 []
         t = <<30, 5, 0>> -> 1 []
         t = <<30, 0, -20>> -> 1 []
         t = <<20, 10, 10>> -> -1 []
         t = <<20, 10, -20>> -> -1 []
         t = <<20, 10, 0>> -> -1 []
         t = <<20, 0, 10>> -> -1 []
         t = <<20, 0, -20>> -> -1 []
         t = <<0, 10, -20>> -> -1 []
         t = <<0, 5, -20>> -> 1 []
         OTHER -> 0

\* Issue.priority_score as <<hundredths, ulps>>: the double that lies ulps
\* units in the last place from the double nearest hundredths / 100.
priority_score(issue) ==
    LET labels == issue_labels(issue)
        by_label == IF labels \cap {L_bug, L_critical, L_urgent} # {} THEN 30
                    ELSE IF labels \cap {L_enhancement, L_feature, L_good_first_issue} # {}
                         THEN 20 ELSE 0
        by_age == IF age_days(issue) <= 7 THEN 10
                  ELSE IF age_days(issue) <= 30 THEN 5 ELSE 0
        by_comments == IF 1 <= issue.comments /\ issue.comments <= 3 THEN 10
                       ELSE IF issue.comments > 10 THEN -20 ELSE 0
    IN  <<Min(100, Max(0, 50 + by_label + by_age + by_comments)),
          RoundingUlps(<<by_label, by_age, by_comments>>)>>

ScoreLess(a, b) == a[1] < b[1] \/ (a[1] = b[1] /\ a[2] < b[2])

\* ----------------------------------- discovery/issue_discoverer.py
\* IssueDiscoverer.GOOD_LABELS and IssueDiscoverer.BAD_LABELS: class
\* attributes that no method reads.
GOOD_LABELS == {L_good_first_issue, L_good_first_issue_dashed, L_beginner, L_easy, L_bug,
                L_enhancement, L_feature, L_help_wanted, L_hacktoberfest}
BAD_LABELS == {L_wontfix, L_invalid, L_duplicate, L_question, L_discussion, L_needs_design,
               L_breaking_change, L_major, L_epic, L_tracking}

K_design == <<"d", "e", "s", "i", "g", "n">>
K_discuss == <<"d", "i", "s", "c", "u", "s", "s">>
K_rfc == <<"r", "f", "c">>
K_proposal == <<"p", "r", "o", "p", "o", "s", "a", "l">>
K_breaking == <<"b", "r", "e", "a", "k", "i", "n", "g">>
K_major_refactor == <<"m", "a", "j", "o", "r", " ", "r", "e", "f", "a", "c", "t", "o", "r">>
K_architecture == <<"a", "r", "c", "h", "i", "t", "e", "c", "t", "u", "r", "e">>
K_backwards_compatibility == <<"b", "a", "c", "k", "w", "a", "r", "d", "s", " ", "c", "o", "m", "p", "a", "t", "i", "b", "i", "l", "i", "t", "y">>

bad_keywords == {K_design, K_discuss, K_rfc, K_proposal, K_breaking, K_major_refactor,
                 K_architecture, K_backwards_compatibility}

\* (issue.title + " " + (issue.body or "")).lower()
text_to_check(issue) ==
    lower(issue.title \o <<" ">> \o (IF issue.body = None THEN <<>> ELSE issue.body[1]))

\* An _is_issue_suitable without the keyword check.
_is_issue_suitable_no_keywords(issue) ==
    IF ~is_good_candidate(issue) THEN FALSE
    ELSE IF age_days(issue) > 365 THEN FALSE
    ELSE IF age_days(issue) < 1 THEN FALSE
    ELSE IF Len(issue.title) < 10 THEN FALSE
    ELSE IF Truthy(issue.body) /\ Len(issue.body[1]) < 20 THEN FALSE
    ELSE TRUE

\* _is_issue_suitable.
_is_issue_suitable(issue) ==
    IF ~is_good_candidate(issue) THEN FALSE
    ELSE IF age_days(issue) > 365 THEN FALSE
    ELSE IF age_days(issue) < 1 THEN FALSE
    ELSE IF Len(issue.title) < 10 THEN FALSE
    ELSE IF Truthy(issue.body) /\ Len(issue.body[1]) < 20 THEN FALSE
    ELSE IF \E keyword \in bad_keywords : Contains(text_to_check(issue), keyword) THEN FALSE
    ELSE TRUE

\* list.sort(key=priority_score, reverse=True): descending and stable.
RECURSIVE InsertByScore(_, _)
InsertByScore(sorted, x) ==
    IF sorted = <<>> THEN <<x>>
    ELSE IF ScoreLess(priority_score(Head(sorted)), priority_score(x))
         THEN <<x>> \o sorted
         ELSE <<Head(sorted)>> \o InsertByScore(Tail(sorted), x)

RECURSIVE SortByScore(_, _)
SortByScore(sorted, rest) ==
    IF rest = <<>> THEN sorted
    ELSE SortByScore(InsertByScore(sorted, Head(rest)), Tail(rest))

\* A sort that puts an issue before the issues of equal score.
RECURSIVE InsertBeforeScoreTies(_, _)
InsertBeforeScoreTies(sorted, x) ==
    IF sorted = <<>> THEN <<x>>
    ELSE IF ~ScoreLess(priority_score(x), priority_score(Head(sorted)))
         THEN <<x>> \o sorted
         ELSE <<Head(sorted)>> \o InsertBeforeScoreTies(Tail(sorted), x)

RECURSIVE SortByScoreUnstable(_, _)
SortByScoreUnstable(sorted, rest) ==
    IF rest = <<>> THEN sorted
    ELSE SortByScoreUnstable(InsertBeforeScoreTies(sorted, Head(rest)), Tail(rest))

\* A _filter_and_prioritize_issues whose sort reverses ties.
_filter_and_prioritize_issues_unstable(issues) ==
    SortByScoreUnstable(<<>>, SelectSeq(issues, _is_issue_suitable))

\* _filter_and_prioritize_issues.
_filter_and_prioritize_issues(issues) ==
    SortByScore(<<>>, SelectSeq(issues, _is_issue_suitable))

\* _get_label_batches.
_get_label_batches ==
    <<<<L_good_first_issue>>, <<L_good_first_issue_dashed>>, <<L_bug>>, <<L_enhancement>>,
      <<L_help_wanted>>, <<L_beginner, L_easy>>>>

\* ------------------------------------- discovery/github_client.py
\* The longest prefix of records that validate as Issue(**issue_data).
RECURSIVE ValidPrefix(_)
ValidPrefix(datas) ==
    IF datas = <<>> \/ ~Head(datas).valid THEN <<>>
    ELSE <<Head(datas)>> \o ValidPrefix(Tail(datas))

\* A get_repository_issues that lets every error through.
get_repository_issues_raising(answer, labels, per_page) ==
    IF answer.kind # "ok" THEN [raised |-> TRUE, items |-> <<>>]
    ELSE [raised |-> FALSE,
          items |-> Take(SelectSeq(answer.items, LAMBDA i : ~i.pull_request), per_page)]

\* A get_repository_issues that counts pull requests toward per_page.
get_repository_issues_counting(answer, labels, per_page) ==
    IF answer.kind = "rate_limited" THEN [raised |-> TRUE, items |-> <<>>]
    ELSE IF answer.kind = "error" THEN [raised |-> FALSE, items |-> <<>>]
    ELSE [raised |-> FALSE,
          items |-> SelectSeq(Take(answer.items, per_page), LAMBDA i : ~i.pull_request)]

\* A get_repository_issues that returns the whole stream.
get_repository_issues_unpaged(answer, labels, per_page) ==
    IF answer.kind = "rate_limited" THEN [raised |-> TRUE, items |-> <<>>]
    ELSE IF answer.kind = "error" THEN [raised |-> FALSE, items |-> <<>>]
    ELSE [raised |-> FALSE, items |-> SelectSeq(answer.items, LAMBDA i : ~i.pull_request)]

\* GitHubClient.get_repository_issues on one answer of the upstream: the
\* retries end in a rate-limit error, which it raises; another error makes
\* it return []; else it returns the first per_page records that are no
\* pull requests.  It reads its labels argument nowhere.
get_repository_issues(answer, labels, per_page) ==
    IF answer.kind = "rate_limited" THEN [raised |-> TRUE, items |-> <<>>]
    ELSE IF answer.kind = "error" THEN [raised |-> FALSE, items |-> <<>>]
    ELSE [raised |-> FALSE,
          items |-> Take(SelectSeq(answer.items, LAMBDA i : ~i.pull_request), per_page)]

\* GitHubClient.rate_limit_buffer.
rate_limit_buffer == 100

\* The @retry decorator of search_repositories and get_repository_issues:
\* stop_after_attempt(3), wait_exponential(multiplier=1, min=4, max=10).
stop_after_attempt == 3
wait_multiplier == 1
wait_min == 4
wait_max == 10

\* A wait that never lets time pass.
wait_exponential_none(attempt_number) == 0

\* tenacity's wait_exponential after the attempt of that number.
wait_exponential(attempt_number) ==
    Max(Max(0, wait_min), Min(wait_multiplier * 2 ^ (attempt_number - 1), wait_max))

\* reset - datetime.now() in seconds: reset is the library's datetime of the
\* reset, in UTC, and datetime.now() is local time without a time zone.  With
\* time-zone-aware library datetimes the subtraction raises TypeError.
total_seconds(reset, now, aware, offset) ==
    IF aware THEN [raised |-> TRUE, seconds |-> 0]
    ELSE [raised |-> FALSE, seconds |-> reset - (now + offset)]

\* The seconds one block of _check_rate_limits sleeps, or that it raised.
LimitBlock(remaining, floor, reset, now, aware, offset) ==
    IF remaining < floor
    THEN LET wait_time == total_seconds(reset, now, aware, offset)
         IN  IF wait_time.raised THEN [raised |-> TRUE, slept |-> 0]
             ELSE IF wait_time.seconds > 0
                  THEN [raised |-> FALSE, slept |-> wait_time.seconds + 1]
                  ELSE [raised |-> FALSE, slept |-> 0]
    ELSE [raised |-> FALSE, slept |-> 0]

\* _check_rate_limits: the seconds it sleeps on a quota read made at now.
\* Every exception, of the read or of the arithmetic, is caught and ends it.
_check_rate_limits(read, now, aware, offset) ==
    IF ~read.ok THEN 0
    ELSE LET core == LimitBlock(read.core_remaining, rate_limit_buffer,
                                now + read.core_reset_in, now, aware, offset)
         IN  IF core.raised THEN 0
             ELSE LET search == LimitBlock(read.search_remaining, 5,
                                           now + read.search_reset_in, now + core.slept,
                                           aware, offset)
                  IN  core.slept + search.slept

\* What one attempt of a client method does with the upstream's answer:
\* a rate-limit error is re-raised to the retry decorator; any other error
\* is re-raised by search_repositories and makes get_repository_issues
\* return [].
AttemptOutcome(fn, kind) ==
    IF kind = "ok" THEN "returned"
    ELSE IF kind = "rate_limited" THEN "rate_limited"
    ELSE IF fn = "search_repositories" THEN "raised" ELSE "returned_empty"

\* What the retry decorator does after an attempt: it returns the attempt's
\* result, lets another exception through, waits and tries again on a
\* rate-limit error, or gives up with RetryError.
RetryStep(outcome, attempt_number) ==
    IF outcome # "rate_limited" THEN outcome
    ELSE IF attempt_number >= stop_after_attempt THEN "retry_error"
    ELSE "backoff"

\* ------------------------------------------------ models/assessment.py
\* Scores are in tenths: 50 is 5.0, and a confidence of 5 is 0.5.
ScoreFields ==
    {"complexity_score", "clarity_score", "scope_score", "feasibility_score", "overall_score"}

\* Field(ge=1, le=10) and Field(ge=0, le=1).
ScoreRange == (1 * 10)..(10 * 10)
ConfidenceRange == (0 * 10)..(1 * 10)

\* Whether pydantic accepts the keyword arguments of Assessment(...): each
\* number is a number and lies in its field's range.
Validates(a) ==
    /\ \A f \in ScoreFields : f \in a.numeric /\ a[f] \in ScoreRange
    /\ "confidence" \in a.numeric /\ a.confidence \in ConfidenceRange

\* How many units in the last place the double that composite_score
\* computes from <<complexity, clarity, scope, feasibility>> lies from the
\* double nearest the exact sum.
CompositeUlps(t) ==
    CASE t = <<10, 10, 10, 55>> -> 1 []
         t = <<10, 50, 10, 55>> -> 1 []
         t = <<10, 55, 10, 55>> -> 1 []
         t = <<10, 100, 10, 55>> -> 1 []
         t = <<50, 50, 10, 55>> -> 1 []
         t = <<50, 55, 10, 55>> -> 1 []
         t = <<50, 100, 10, 55>> -> 1 []
         t = <<55, 10, 55, 10>> -> 1 []
         t = <<55, 50, 10, 55>> -> 1 []
         t = <<55, 55, 10, 55>> -> 1 []
         t = <<55, 100, 10, 55>> -> 1 []
         t = <<100, 10, 55, 10>> -> 1 []
         t = <<100, 50, 55, 10>> -> 1 []
         t = <<100, 55, 55, 10>> -> 1 []
         t = <<100, 100, 10, 55>> -> 1 []
         t = <<50, 80, 30, 70>> -> -1 []
         OTHER -> 0

\* A composite score whose complexity is taken from 10, not from 11.
composite_score_from_ten(a) ==
    <<30 * a.feasibility_score + 25 * a.clarity_score + 25 * (10 * 10 - a.complexity_score)
        + 20 * a.scope_score, 0>>

\* Assessment.composite_score as <<thousandths, ulps>>: the double that lies
\* ulps units in the last place from the double nearest thousandths / 1000.
composite_score(a) ==
    <<30 * a.feasibility_score + 25 * a.clarity_score + 25 * (11 * 10 - a.complexity_score)
        + 20 * a.scope_score,
      CompositeUlps(<<a.complexity_score, a.clarity_score, a.scope_score,
                      a.feasibility_score>>)>>

\* ---------------------------------------------- llm/issue_assessor.py
\* A reply is a sequence of tokens: an opening brace, a closing brace, a
\* stretch of prose, or the members of a JSON object.
NoData ==
    [keys |-> {}, numeric |-> {}, complexity_score |-> 0, clarity_score |-> 0,
     scope_score |-> 0, feasibility_score |-> 0, overall_score |-> 0, confidence |-> 0]
LB == [ch |-> "{", data |-> NoData]
RB == [ch |-> "}", data |-> NoData]
Prose == [ch |-> "prose", data |-> NoData]
Members(data) == [ch |-> "members", data |-> data]

\* str.find and str.rfind: the index from 0 of the first and of the last
\* occurrence, or -1.
find(response, ch) ==
    LET at == {i \in 1..Len(response) : response[i].ch = ch}
    IN  IF at = {} THEN -1 ELSE (CHOOSE i \in at : \A j \in at : i <= j) - 1
rfind(response, ch) ==
    LET at == {i \in 1..Len(response) : response[i].ch = ch}
    IN  IF at = {} THEN -1 ELSE (CHOOSE i \in at : \A j \in at : i >= j) - 1

\* response[start:end], a negative index counting from the end.
Slice(response, start, end) ==
    LET Clamp(i) == IF i < 0 THEN Max(0, Len(response) + i) ELSE Min(i, Len(response))
    IN  IF Clamp(start) < Clamp(end) THEN SubSeq(response, Clamp(start) + 1, Clamp(end))
        ELSE <<>>

\* json.loads: the object, or None for JSONDecodeError.
json_loads(json_str) ==
    IF json_str = <<LB, RB>> THEN Some(NoData)
    ELSE IF Len(json_str) = 3 /\ json_str[1] = LB /\ json_str[2].ch = "members"
            /\ json_str[3] = RB
         THEN Some(json_str[2].data)
         ELSE None

\* The keys _parse_assessment_response reads with data[...].
RequiredKeys == ScoreFields \cup {"is_doable", "confidence", "reasoning"}

model_used(clients) == IF clients.anthropic THEN "claude-3-5-sonnet" ELSE "gpt-4"

\* The Assessment built from a reply's data.
ParsedAssessment(issue, data, clients) ==
    [issue_id |-> issue.id, issue_number |-> issue.number,
     repo_full_name |-> issue.repo_full_name, numeric |-> data.numeric,
     complexity_score |-> data.complexity_score, clarity_score |-> data.clarity_score,
     scope_score |-> data.scope_score, feasibility_score |-> data.feasibility_score,
     overall_score |-> data.overall_score, confidence |-> data.confidence,
     model_used |-> model_used(clients)]

\* The default assessment of the except branch.
FallbackAssessment(issue) ==
    [issue_id |-> issue.id, issue_number |-> issue.number,
     repo_full_name |-> issue.repo_full_name,
     numeric |-> ScoreFields \cup {"confidence"},
     complexity_score |-> 50, clarity_score |-> 50, scope_score |-> 50,
     feasibility_score |-> 50, overall_score |-> 50, confidence |-> 5,
     model_used |-> "fallback"]

\* A parser that files every Assessment under the issue's number.
_parse_assessment_response_misfiled(issue, response, clients) ==
    Some([FallbackAssessment(issue) EXCEPT !.issue_id = issue.number])

\* _parse_assessment_response: the Assessment, or None when it raises.
\* JSONDecodeError and KeyError are caught, pydantic's ValidationError is
\* not.
_parse_assessment_response(issue, response, clients) ==
    LET start == find(response, "{")
        end == rfind(response, "}") + 1
        json_str == Slice(response, start, end)
        data == json_loads(json_str)
    IN  IF data = None THEN Some(FallbackAssessment(issue))
        ELSE IF ~(RequiredKeys \subseteq data[1].keys) THEN Some(FallbackAssessment(issue))
        ELSE IF Validates(ParsedAssessment(issue, data[1], clients))
             THEN Some(ParsedAssessment(issue, data[1], clients))
             ELSE None

\* _assess_single_issue: the Assessment, or None when it raises. A reply is
\* the text of the LLM's answer, or the call's exception.
_assess_single_issue(issue, reply, clients) ==
    IF ~clients.anthropic /\ ~clients.openai THEN None
    ELSE IF reply.raised THEN None
    ELSE _parse_assessment_response(issue, reply.text, clients)

\* list.sort(key=composite_score, reverse=True): descending and stable.
RECURSIVE InsertByComposite(_, _)
InsertByComposite(sorted, x) ==
    IF sorted = <<>> THEN <<x>>
    ELSE IF ScoreLess(composite_score(Head(sorted)), composite_score(x))
         THEN <<x>> \o sorted
         ELSE <<Head(sorted)>> \o InsertByComposite(Tail(sorted), x)

\* A sort that leaves the list as it was collected.
SortByCompositeNot(sorted, rest) == sorted \o rest

RECURSIVE SortByComposite(_, _)
SortByComposite(sorted, rest) ==
    IF rest = <<>> THEN sorted
    ELSE SortByComposite(InsertByComposite(sorted, Head(rest)), Tail(rest))

\* ------------------------------------------------------------ main.py
\* The parameters of IssueDiscoverer.discover_issues, and the keywords main
\* calls it with.
discover_issues_parameters == {"repositories", "max_issues_per_repo", "include_unlabeled"}
discover_issues_keywords ==
    {"repositories", "max_issues_per_repo", "include_unlabeled", "max_workers"}

\* Whether a call with these keywords binds: if not, it raises TypeError
\* before the function's body runs.
Binds(parameters, keywords) == keywords \subseteq parameters

\* ------------------------------------------------ the upstream's data
Repo(name, stars, language, pushed_at, open_issues) ==
    [full_name |-> name, stars |-> stars, language |-> language,
     pushed_at |-> pushed_at, open_issues_count |-> open_issues,
     has_issues |-> TRUE, archived |-> FALSE, disabled |-> FALSE, valid |-> TRUE]

RepoAB == Repo("a/b", 50, Some("Python"), Some(Days(3)), 5)
RepoCD == Repo("c/d", 50, Some("Go"), Some(Days(20)), 5)
RepoEF == Repo("e/f", 100, Some("Rust"), Some(Days(3)), 5)

\* Records that occur several to an answer.
CoreRepos == {RepoAB, [RepoAB EXCEPT !.stars = 999], RepoCD, RepoEF}

\* Records that differ from a core record in one field.
EdgeRepos ==
    {[RepoCD EXCEPT !.pushed_at = p] :
        p \in {None, Some(Days(7) + 1), Some(Days(60)), Some(Days(180)), Some(Days(180) + 1)}}
    \cup {[RepoEF EXCEPT !.has_issues = FALSE], [RepoEF EXCEPT !.archived = TRUE],
          [RepoEF EXCEPT !.disabled = TRUE], [RepoEF EXCEPT !.open_issues_count = 0],
          [RepoEF EXCEPT !.stars = 5], [RepoEF EXCEPT !.language = Some("COBOL")],
          [RepoEF EXCEPT !.language = None], [RepoEF EXCEPT !.valid = FALSE]}

RepoUniverse == CoreRepos \cup EdgeRepos
RepoNames == {r.full_name : r \in RepoUniverse}

\* The upstream returns a search sorted by stars, descending.
SortedByStars(s) == \A i \in 1..(Len(s) - 1) : s[i].stars >= s[i + 1].stars

\* Answers of the upstream to one topic search: a failure, or the records
\* matching the query.
TopicAnswers ==
    {[ok |-> FALSE, items |-> <<>>]}
    \cup {[ok |-> TRUE, items |-> s] :
            s \in {t \in SeqsUpTo(CoreRepos, MaxHits) \cup {<<r>> : r \in EdgeRepos} :
                     SortedByStars(t) /\ \A i \in 1..Len(t) : QueryMatches(t[i])}}

\* The upstream results search_repositories is called on, and the per_page
\* it is called with: 1 by get_repositories_by_names, min(max_repos, 100)
\* by _search_single_topic.
SearchStreams == {a.items : a \in {b \in TopicAnswers : b.ok}}
PerPageInputs == {1, MaxHits, 100}

CategoryInputs == {<<"llm">>, <<"genai", "nlp">>}
MaxWorkersInputs == {1, 2}
MaxReposInputs == {1, 50}

\* "x" * n.
Xs(n) == [i \in 1..n |-> "x"]

T_fix_parser_crash == <<"f", "i", "x", " ", "p", "a", "r", "s", "e", "r", " ", "c", "r", "a", "s", "h">>
T_fix_typos == <<"f", "i", "x", " ", "t", "y", "p", "o", "s">>
T_fix_parser == <<"f", "i", "x", " ", "p", "a", "r", "s", "e", "r">>
T_rfc_new_parser == <<"R", "F", "C", ":", " ", "n", "e", "w", " ", "p", "a", "r", "s", "e", "r">>
T_redesign_the_parser == <<"r", "e", "d", "e", "s", "i", "g", "n", " ", "t", "h", "e", " ", "p", "a", "r", "s", "e", "r">>
T_parser_needs_major == <<"p", "a", "r", "s", "e", "r", " ", "n", "e", "e", "d", "s", " ", "m", "a", "j", "o", "r">>
B_refactor == <<"r", "e", "f", "a", "c", "t", "o", "r", " ">> \o Xs(60)

\* The issue of the specification's scenario: labels ["bug"], comments 3,
\* body "x" * 60, state "open", assignees [].
IssueBug ==
    [id |-> 1, title |-> T_fix_parser_crash, body |-> Some(Xs(60)), state |-> "open",
     labels |-> <<L_bug>>, assignees |-> <<>>, comments |-> 3, created_age |-> Days(10),
     pull_request |-> FALSE, valid |-> TRUE, repo_full_name |-> "a/b"]
IssueEnhancement == [IssueBug EXCEPT !.id = 2, !.labels = <<L_enhancement>>, !.created_age = Days(3)]
IssuePull == [IssueBug EXCEPT !.id = 3, !.pull_request = TRUE]
IssueEdge == [IssueBug EXCEPT !.id = 4]

\* Records that occur several to a repository.
CoreIssues == {IssueBug, IssueEnhancement, IssuePull}

\* Records that differ from IssueBug in one respect.
EdgeIssues ==
    {[IssueEdge EXCEPT !.body = b] : b \in {None, Some(<<>>), Some(Xs(10)), Some(Xs(25))}}
    \cup {[IssueEdge EXCEPT !.title = t] :
            t \in {T_fix_typos, T_fix_parser, T_rfc_new_parser, T_redesign_the_parser}}
    \cup {[IssueEdge EXCEPT !.title = T_parser_needs_major, !.body = Some(B_refactor)]}
    \cup {[IssueEdge EXCEPT !.created_age = a] :
            a \in {Days(1) - 1, Days(1), Days(366) - 1, Days(366)}}
    \cup {[IssueEdge EXCEPT !.labels = l] :
            l \in {<<L_good_first_issue, L_wontfix>>, <<<<"B", "u", "g">>>>, <<L_hacktoberfest>>,
                   <<L_bug, L_epic>>, <<>>}}
    \cup {[IssueEdge EXCEPT !.assignees = <<"someone">>], [IssueEdge EXCEPT !.comments = 11],
          [IssueEdge EXCEPT !.valid = FALSE]}

\* What the upstream lists for one repository with state="open".
IssueStreams ==
    SeqsUpTo(CoreIssues, MaxIssueStream)
    \cup {<<i>> : i \in EdgeIssues}
    \cup {<<IssueBug, i>> : i \in EdgeIssues}

\* The stream as the upstream lists it for repository name: issue ids are
\* unique across repositories.
StreamOf(name, stream) ==
    [k \in 1..Len(stream) |->
        [stream[k] EXCEPT !.repo_full_name = name,
                          !.id = @ + (IF name = "a/b" THEN 0 ELSE 10)]]

\* With several repositories each lists at most one record of CoreIssues.
ShortIssueStreams == {<<>>} \cup {<<i>> : i \in CoreIssues}

RepositoriesInputs == {<<>>, <<"a/b">>, <<"a/b", "c/d">>}
MaxIssuesInputs == {1, 3}
AnswerKinds == {"ok", "error", "rate_limited"}

\* What get_rate_limit() may give: it raises, or the quotas left and the
\* seconds until each resets.
QuotaReads ==
    {[ok |-> FALSE, core_remaining |-> 0, core_reset_in |-> 0,
      search_remaining |-> 0, search_reset_in |-> 0]}
    \cup [ok : {TRUE}, core_remaining : {99, 100}, core_reset_in : {0, 3},
          search_remaining : {4, 5}, search_reset_in : {0, 2}]

ClientMethods == {"search_repositories", "get_repository_issues"}

\* The data of the prompt's example reply, and variations of it.
ExampleData ==
    [keys |-> RequiredKeys \cup {"estimated_effort_hours", "required_skills",
                                 "potential_risks"},
     numeric |-> ScoreFields \cup {"confidence"},
     complexity_score |-> 50, clarity_score |-> 80, scope_score |-> 30,
     feasibility_score |-> 70, overall_score |-> 60, confidence |-> 8]
ValidData ==
    {ExampleData,
     [ExampleData EXCEPT !.keys = RequiredKeys],
     [ExampleData EXCEPT !.complexity_score = 20, !.clarity_score = 90, !.scope_score = 20,
                         !.feasibility_score = 90, !.overall_score = 80, !.confidence = 9]}
MissingKeyData ==
    {[ExampleData EXCEPT !.keys = @ \ {"reasoning"}],
     [ExampleData EXCEPT !.keys = @ \ {"complexity_score"}, !.overall_score = 110]}
OutOfRangeData ==
    {[ExampleData EXCEPT !.overall_score = 110],
     [ExampleData EXCEPT !.complexity_score = 5],
     [ExampleData EXCEPT !.confidence = 15]}
WrongTypeData == {[ExampleData EXCEPT !.numeric = @ \ {"clarity_score"}]}
ReplyData == ValidData \cup MissingKeyData \cup OutOfRangeData \cup WrongTypeData

\* The texts an LLM may answer with.
NoObjectTexts == {<<>>, <<Prose>>, <<RB>>, <<LB>>, <<Prose, RB, LB>>}
InvalidJsonTexts ==
    {<<LB, Members(ExampleData)>> \o <<RB, Prose, LB, RB>>,
     <<LB, LB, Members(ExampleData), RB, RB>>,
     <<LB, Prose, RB>>}
ObjectTexts ==
    {<<LB, Members(d), RB>> : d \in ReplyData}
    \cup {<<Prose, LB, Members(d), RB, Prose>> : d \in {ExampleData} \cup OutOfRangeData}
    \cup {<<LB, RB>>}
ReplyTexts == NoObjectTexts \cup InvalidJsonTexts \cup ObjectTexts

\* What a call of the LLM may give: a text, or an exception.
Replies ==
    {[raised |-> FALSE, text |-> t] : t \in ReplyTexts}
    \cup {[raised |-> TRUE, text |-> <<>>]}

\* The valid scores composite_score is read on: the ends of the range, its
\* middle, and a score that is not a whole number.
ScoreGrid == {10, 50, 55, 100}

\* The clients an IssueAssessor may hold: its constructor raises without one.
ClientSets ==
    {c \in [anthropic : BOOLEAN, openai : BOOLEAN] : c.anthropic \/ c.openai}

\* The issues handed to assess_issues.
AssessedIssue(i) == [id |-> 10 * i, number |-> i, repo_full_name |-> "a/b"]
AssessInputs == {[i \in 1..n |-> AssessedIssue(i)] : n \in 0..MaxAssessed}

\* main: how many topics or names a run searches, and how many repositories
\* discovery may return.
QueryCounts == 1..MaxQueries
FoundCounts == 0..MaxFound
UtcOffsets == {-5, 0, 5}

\* The issues is_good_candidate is evaluated on.
ProbeIssues ==
    {[IssueBug EXCEPT !.state = st, !.assignees = as, !.labels = l, !.comments = c,
                      !.title = t, !.body = b] :
        st \in {"open", "closed"}, as \in {<<>>, <<"someone">>},
        l \in {<<>>, <<L_bug>>, <<<<"B", "u", "g">>>>, <<L_good_first_issue, L_wontfix>>,
               <<<<"W", "o", "n", "t", "F", "i", "x">>, L_bug>>, <<L_question>>, <<L_hacktoberfest>>, <<L_bug, L_epic>>},
        c \in {3, 10, 11}, t \in {<<>>, T_fix_parser_crash},
        b \in {None, Some(<<>>), Some(Xs(49)), Some(Xs(50)), Some(Xs(60))}}

\* ---------------------------------------------------------- the state
VARIABLES
    op,                  \* the RepositoryDiscoverer call in progress
    all_topics,          \* discover_repositories: the (category, topic) pairs
    max_workers,         \* discover_repositories: the pool's size
    max_repos_per_query, \* discover_repositories: the page size asked for
    upstream,            \* the upstream's answer to each topic search
    fut,                 \* each submitted future's state
    fut_result,          \* each finished future's result
    all_repositories,    \* discover_repositories: the merged records
    unique_repos,        \* discover_repositories: the deduplicated records
    repo_names,          \* get_repositories_by_names: its argument
    fetched,             \* get_repositories_by_names: names already looked up
    repositories,        \* get_repositories_by_names: the records parsed
    discovered_repos,    \* RepositoryDiscoverer.discovered_repos
    returned_repos,      \* the list the call returned
    top_repos,           \* what get_top_repositories returned last
    top_limit,           \* the limit of that call, None before any
    ipc,                 \* where discover_issues stands
    i_repositories,      \* discover_issues: the repositories' full names
    max_issues_per_repo, \* discover_issues: the cap
    include_unlabeled,   \* discover_issues: its flag
    issue_upstream,      \* what the upstream lists for each repository
    repo_idx,            \* discover_issues: the repository in turn
    batch_idx,           \* _get_repository_issues: the label batch in turn
    issues,              \* _get_repository_issues: the issues collected
    all_issues,          \* discover_issues: the issues aggregated
    last_call,           \* the last get_repository_issues call and its outcome
    discovered_issues,   \* IssueDiscoverer.discovered_issues
    returned_issues,     \* the list discover_issues returned
    probe,               \* an issue handed to is_good_candidate
    probe_good           \* is_good_candidate's answer on it, None before

repo_vars == <<op, all_topics, max_workers, max_repos_per_query, upstream, fut,
               fut_result, all_repositories, unique_repos, repo_names, fetched,
               repositories, discovered_repos, returned_repos, top_repos, top_limit>>

issue_vars == <<ipc, i_repositories, max_issues_per_repo, include_unlabeled, issue_upstream,
                repo_idx, batch_idx, issues, all_issues, last_call, discovered_issues,
                returned_issues>>

probe_vars == <<probe, probe_good>>

VARIABLES
    cpc,                 \* where the client call stands
    c_fn,                \* the client method called
    datetimes,           \* whether the library's datetimes carry a time zone
    utc_offset,          \* local time minus UTC
    c_now,               \* the time, UTC
    attempt,             \* tenacity's attempt_number
    c_log                \* the quota reads, upstream calls and waits so far

client_vars == <<cpc, c_fn, datetimes, utc_offset, c_now, attempt, c_log>>

VARIABLES
    mpc,                 \* where main stands
    m_token,             \* main: whether GITHUB_TOKEN is set
    m_auth_ok,           \* main: whether get_authenticated_user() succeeds
    m_llm,               \* main: whether an LLM client is available
    m_repos,             \* main: whether --repos is given
    m_queries,           \* main: the topics or names to search
    m_found,             \* main: len(repositories)
    m_searches,          \* repository searches issued so far
    m_listings,          \* issue listings issued so far
    exit_code            \* main's return value, None while it runs

main_vars == <<mpc, m_token, m_auth_ok, m_llm, m_repos, m_queries, m_found, m_searches,
               m_listings, exit_code>>

VARIABLES
    apc,                 \* where assess_issues stands
    llm_clients,         \* the assessor's anthropic_client and openai_client
    assess_input,        \* assess_issues' issues
    pool_size,           \* assess_issues' max_workers
    task,                \* the state of each issue's future
    reply,               \* what the LLM answered to each issue's task
    task_result,         \* each future's Assessment, None when it raised
    assessments,         \* assess_issues' list
    failed_numbers,      \* the issue numbers printed as failed
    assess_returned      \* what assess_issues returned, None before

assess_vars == <<apc, llm_clients, assess_input, pool_size, task, reply, task_result,
                 assessments, failed_numbers, assess_returned>>

VARIABLES
    scored,              \* the scores of an Assessment
    scored_value         \* its composite_score, None before

score_vars == <<scored, scored_value>>

VARIABLES
    search_stream,       \* the upstream result of a search
    search_per_page,     \* search_repositories' per_page
    search_out           \* what the search returned and pulled, None before

search_vars == <<search_stream, search_per_page, search_out>>

not_repo_vars == <<issue_vars, probe_vars, client_vars, main_vars, assess_vars, score_vars, search_vars>>
not_issue_vars == <<repo_vars, probe_vars, client_vars, main_vars, assess_vars, score_vars, search_vars>>
not_probe_vars == <<repo_vars, issue_vars, client_vars, main_vars, assess_vars, score_vars, search_vars>>
not_client_vars == <<repo_vars, issue_vars, probe_vars, main_vars, assess_vars, score_vars, search_vars>>
not_main_vars == <<repo_vars, issue_vars, probe_vars, client_vars, assess_vars, score_vars, search_vars>>
not_assess_vars == <<repo_vars, issue_vars, probe_vars, client_vars, main_vars, score_vars, search_vars>>
not_score_vars == <<repo_vars, issue_vars, probe_vars, client_vars, main_vars, assess_vars, search_vars>>
not_search_vars == <<repo_vars, issue_vars, probe_vars, client_vars, main_vars, assess_vars, score_vars>>

vars ==
    <<repo_vars, issue_vars, probe_vars, client_vars, main_vars, assess_vars, score_vars, search_vars>>

\* RepositoryDiscoverer.__init__, no call made yet.
RepoInit ==
    /\ op = "idle"
    /\ all_topics = <<>>
    /\ max_workers = 0
    /\ max_repos_per_query = 0
    /\ upstream = <<>>
    /\ fut = <<>>
    /\ fut_result = <<>>
    /\ all_repositories = <<>>
    /\ unique_repos = <<>>
    /\ repo_names = <<>>
    /\ fetched = 0
    /\ repositories = <<>>
    /\ discovered_repos = <<>>
    /\ returned_repos = <<>>
    /\ top_repos = <<>>
    /\ top_limit = None

\* discover_repositories up to the submission of every topic search.
SubmitSearches(cats, workers, max_repos, answers) ==
    /\ op = "idle"
    /\ op' = "discover"
    /\ all_topics' = AllTopics(cats)
    /\ max_workers' = workers
    /\ max_repos_per_query' = max_repos
    /\ upstream' = answers
    /\ fut' = [i \in 1..Len(AllTopics(cats)) |-> "pending"]
    /\ fut_result' = [i \in 1..Len(AllTopics(cats)) |-> <<>>]
    /\ all_repositories' = <<>>
    /\ UNCHANGED <<unique_repos, repo_names, fetched, repositories, discovered_repos,
                   returned_repos, top_repos, top_limit>>
    /\ UNCHANGED not_repo_vars

discover_repositories ==
    /\ op = "idle"
    /\ \E cats \in CategoryInputs, workers \in MaxWorkersInputs, max_repos \in MaxReposInputs :
        \E answers \in [1..Len(AllTopics(cats)) -> TopicAnswers] :
            SubmitSearches(cats, workers, max_repos, answers)

Running == {i \in 1..Len(fut) : fut[i] = "running"}

\* A pool that starts a queued search whatever is running.
StartSearchUnbounded(i) ==
    /\ op = "discover"
    /\ fut[i] = "pending"
    /\ fut' = [fut EXCEPT ![i] = "running"]
    /\ UNCHANGED <<op, all_topics, max_workers, max_repos_per_query, upstream, fut_result,
                   all_repositories, unique_repos, repo_names, fetched, repositories,
                   discovered_repos, returned_repos, top_repos, top_limit>>
    /\ UNCHANGED not_repo_vars

\* A pool thread takes the oldest queued search.
StartSearch(i) ==
    /\ op = "discover"
    /\ fut[i] = "pending"
    /\ \A j \in 1..(i - 1) : fut[j] # "pending"
    /\ Cardinality(Running) < max_workers
    /\ fut' = [fut EXCEPT ![i] = "running"]
    /\ UNCHANGED <<op, all_topics, max_workers, max_repos_per_query, upstream, fut_result,
                   all_repositories, unique_repos, repo_names, fetched, repositories,
                   discovered_repos, returned_repos, top_repos, top_limit>>
    /\ UNCHANGED not_repo_vars

\* A pool thread that extends the merged list itself when its search ends.
FinishSearchMerging(i) ==
    /\ op = "discover"
    /\ fut[i] = "running"
    /\ fut' = [fut EXCEPT ![i] = "finished"]
    /\ fut_result' = [fut_result EXCEPT
                        ![i] = _search_single_topic(upstream[i], max_repos_per_query)]
    /\ all_repositories' = all_repositories \o fut_result'[i]
    /\ UNCHANGED <<op, all_topics, max_workers, max_repos_per_query, upstream,
                   unique_repos, repo_names, fetched, repositories,
                   discovered_repos, returned_repos, top_repos, top_limit>>
    /\ UNCHANGED not_repo_vars

\* _search_single_topic returns in its pool thread.
FinishSearch(i) ==
    /\ op = "discover"
    /\ fut[i] = "running"
    /\ fut' = [fut EXCEPT ![i] = "finished"]
    /\ fut_result' = [fut_result EXCEPT
                        ![i] = _search_single_topic(upstream[i], max_repos_per_query)]
    /\ UNCHANGED <<op, all_topics, max_workers, max_repos_per_query, upstream,
                   all_repositories, unique_repos, repo_names, fetched, repositories,
                   discovered_repos, returned_repos, top_repos, top_limit>>
    /\ UNCHANGED not_repo_vars

\* One turn of the as_completed loop: all_repositories.extend(future.result()).
CollectSearch(i) ==
    /\ op = "discover"
    /\ fut[i] = "finished"
    /\ fut' = [fut EXCEPT ![i] = "collected"]
    /\ all_repositories' = all_repositories \o fut_result[i]
    /\ UNCHANGED <<op, all_topics, max_workers, max_repos_per_query, upstream, fut_result,
                   unique_repos, repo_names, fetched, repositories, discovered_repos,
                   returned_repos, top_repos, top_limit>>
    /\ UNCHANGED not_repo_vars

\* After the loop: deduplicate, filter, store and return.
FinishDiscovery ==
    /\ op = "discover"
    /\ \A i \in 1..Len(fut) : fut[i] = "collected"
    /\ op' = "discover_done"
    /\ unique_repos' = _deduplicate_repositories(all_repositories)
    /\ discovered_repos' = _filter_repositories(unique_repos')
    /\ returned_repos' = discovered_repos'
    /\ UNCHANGED <<all_topics, max_workers, max_repos_per_query, upstream, fut, fut_result,
                   all_repositories, repo_names, fetched, repositories, top_repos, top_limit>>
    /\ UNCHANGED not_repo_vars

\* get_repositories_by_names is called.
StartByNames ==
    /\ op = "idle"
    /\ \E names \in SeqsUpTo(RepoNames, MaxNames) :
        /\ repo_names' = names
        /\ op' = "by_names"
        /\ fetched' = 0
        /\ repositories' = <<>>
    /\ UNCHANGED <<all_topics, max_workers, max_repos_per_query, upstream, fut, fut_result,
                   all_repositories, unique_repos, discovered_repos, returned_repos,
                   top_repos, top_limit>>
    /\ UNCHANGED not_repo_vars

\* What search_repositories(query="repo:<name>", per_page=1) may give: it
\* raises, or returns no record, or the record of that name.
NameAnswers(name) ==
    {[ok |-> FALSE, items |-> <<>>], [ok |-> TRUE, items |-> <<>>]}
    \cup {[ok |-> TRUE, items |-> <<r>>] : r \in {u \in RepoUniverse : u.full_name = name}}

\* One turn of get_repositories_by_names' loop.
FetchByName ==
    /\ op = "by_names"
    /\ fetched < Len(repo_names)
    /\ \E answer \in NameAnswers(repo_names[fetched + 1]) :
        repositories' =
            repositories \o (IF ~answer.ok THEN <<>>
                             ELSE ParseRepositories(Take(search_repositories(answer.items, 1), 1)))
    /\ fetched' = fetched + 1
    /\ UNCHANGED <<op, all_topics, max_workers, max_repos_per_query, upstream, fut, fut_result,
                   all_repositories, unique_repos, repo_names, discovered_repos,
                   returned_repos, top_repos, top_limit>>
    /\ UNCHANGED not_repo_vars

\* After the loop: filter, store and return.
FinishByNames ==
    /\ op = "by_names"
    /\ fetched = Len(repo_names)
    /\ op' = "by_names_done"
    /\ discovered_repos' = _filter_repositories(repositories)
    /\ returned_repos' = discovered_repos'
    /\ UNCHANGED <<all_topics, max_workers, max_repos_per_query, upstream, fut, fut_result,
                   all_repositories, unique_repos, repo_names, fetched, repositories,
                   top_repos, top_limit>>
    /\ UNCHANGED not_repo_vars

\* get_top_repositories(limit) on the stored discovery result.
GetTopRepositories ==
    /\ op \in {"discover_done", "by_names_done"}
    /\ \E limit \in 0..(Len(discovered_repos) + 1) :
        /\ top_limit' = Some(limit)
        /\ top_repos' = get_top_repositories(discovered_repos, limit)
    /\ UNCHANGED <<op, all_topics, max_workers, max_repos_per_query, upstream, fut, fut_result,
                   all_repositories, unique_repos, repo_names, fetched, repositories,
                   discovered_repos, returned_repos>>
    /\ UNCHANGED not_repo_vars

Next ==
    \/ discover_repositories
    \/ \E i \in 1..Len(fut) : StartSearch(i)
    \/ \E i \in 1..Len(fut) : FinishSearch(i)
    \/ \E i \in 1..Len(fut) : CollectSearch(i)
    \/ FinishDiscovery
    \/ StartByNames
    \/ FetchByName
    \/ FinishByNames
    \/ GetTopRepositories


\* IssueDiscoverer.__init__, no call made yet.
IssueInit ==
    /\ ipc = "idle"
    /\ i_repositories = <<>>
    /\ max_issues_per_repo = 0
    /\ include_unlabeled = FALSE
    /\ issue_upstream = <<>>
    /\ repo_idx = 0
    /\ batch_idx = 0
    /\ issues = <<>>
    /\ all_issues = <<>>
    /\ last_call = None
    /\ discovered_issues = <<>>
    /\ returned_issues = <<>>

ProbeInit ==
    /\ probe = IssueBug
    /\ probe_good = None

\* GitHubClient.__init__, no call made yet.
ClientInit ==
    /\ cpc = "idle"
    /\ c_fn = "none"
    /\ datetimes = "naive"
    /\ utc_offset = 0
    /\ c_now = 0
    /\ attempt = 0
    /\ c_log = <<>>

\* Before main is called.
MainInit ==
    /\ mpc = "idle"
    /\ m_token = FALSE
    /\ m_auth_ok = FALSE
    /\ m_llm = FALSE
    /\ m_repos = FALSE
    /\ m_queries = 0
    /\ m_found = 0
    /\ m_searches = 0
    /\ m_listings = 0
    /\ exit_code = None

\* Before assess_issues is called.
AssessInit ==
    /\ apc = "idle"
    /\ llm_clients = [anthropic |-> TRUE, openai |-> FALSE]
    /\ assess_input = <<>>
    /\ pool_size = 1
    /\ task = <<>>
    /\ reply = <<>>
    /\ task_result = <<>>
    /\ assessments = <<>>
    /\ failed_numbers = {}
    /\ assess_returned = None

\* Before composite_score is read.
ScoreInit ==
    /\ scored = [complexity_score |-> 50, clarity_score |-> 50, scope_score |-> 50,
                 feasibility_score |-> 50]
    /\ scored_value = None

\* Before search_repositories is called.
SearchInit ==
    /\ search_stream = <<>>
    /\ search_per_page = 100
    /\ search_out = None

Init ==
    /\ RepoInit /\ IssueInit /\ ProbeInit /\ ClientInit /\ MainInit /\ AssessInit
    /\ ScoreInit /\ SearchInit

\* discover_issues is called.
discover_issues ==
    /\ ipc = "idle"
    /\ \E repos \in RepositoriesInputs, cap \in MaxIssuesInputs, unlabeled \in BOOLEAN :
        \E streams \in [1..Len(repos) ->
                            IF Len(repos) > 1 THEN ShortIssueStreams ELSE IssueStreams] :
            /\ i_repositories' = repos
            /\ max_issues_per_repo' = cap
            /\ include_unlabeled' = unlabeled
            /\ issue_upstream' = [k \in 1..Len(repos) |-> StreamOf(repos[k], streams[k])]
            /\ ipc' = IF repos = <<>> THEN "filter" ELSE "batches"
    /\ repo_idx' = 1
    /\ batch_idx' = 1
    /\ issues' = <<>>
    /\ all_issues' = <<>>
    /\ UNCHANGED <<last_call, discovered_issues, returned_issues>>
    /\ UNCHANGED not_issue_vars

\* One turn of _get_repository_issues' loop over the label batches.
QueryLabelBatch ==
    /\ ipc = "batches"
    /\ batch_idx <= Len(_get_label_batches)
    /\ Len(issues) < max_issues_per_repo
    /\ \E kind \in AnswerKinds :
        LET labels == _get_label_batches[batch_idx]
            per_page == max_issues_per_repo - Len(issues)
            result == get_repository_issues(
                          [kind |-> kind, items |-> issue_upstream[repo_idx]], labels, per_page)
        IN  /\ issues' = issues \o ValidPrefix(result.items)
            /\ last_call' = Some([repo |-> repo_idx, kind |-> kind, labels |-> Some(labels),
                                  per_page |-> per_page, raised |-> result.raised,
                                  items |-> result.items])
    /\ batch_idx' = batch_idx + 1
    /\ UNCHANGED <<ipc, i_repositories, max_issues_per_repo, include_unlabeled, issue_upstream,
                   repo_idx, all_issues, discovered_issues, returned_issues>>
    /\ UNCHANGED not_issue_vars

\* The loop ends: the batches are through, or the cap is reached.
LeaveLabelBatches ==
    /\ ipc = "batches"
    /\ batch_idx > Len(_get_label_batches) \/ Len(issues) >= max_issues_per_repo
    /\ ipc' = "unlabeled"
    /\ UNCHANGED <<i_repositories, max_issues_per_repo, include_unlabeled, issue_upstream,
                   repo_idx, batch_idx, issues, all_issues, last_call, discovered_issues,
                   returned_issues>>
    /\ UNCHANGED not_issue_vars

\* The unlabeled query's loop: records whose id is already collected are
\* passed over, and the first record that does not validate ends the loop.
RECURSIVE UnlabeledNew(_, _)
UnlabeledNew(datas, existing_ids) ==
    IF datas = <<>> THEN <<>>
    ELSE IF Head(datas).id \in existing_ids THEN UnlabeledNew(Tail(datas), existing_ids)
    ELSE IF ~Head(datas).valid THEN <<>>
    ELSE <<Head(datas)>> \o UnlabeledNew(Tail(datas), existing_ids)

\* discover_issues takes what _get_repository_issues returned and moves on.
NextRepository(found) ==
    /\ all_issues' = all_issues \o found
    /\ issues' = <<>>
    /\ batch_idx' = 1
    /\ repo_idx' = repo_idx + 1
    /\ ipc' = IF repo_idx = Len(i_repositories) THEN "filter" ELSE "batches"

\* The unlabeled query of _get_repository_issues, and its return.
QueryUnlabeled ==
    /\ ipc = "unlabeled"
    /\ Len(issues) < max_issues_per_repo
    /\ include_unlabeled
    /\ \E kind \in AnswerKinds :
        LET remaining == max_issues_per_repo - Len(issues)
            result == get_repository_issues(
                          [kind |-> kind, items |-> issue_upstream[repo_idx]], None, remaining)
            existing_ids == {issues[k].id : k \in 1..Len(issues)}
        IN  /\ NextRepository(issues \o UnlabeledNew(result.items, existing_ids))
            /\ last_call' = Some([repo |-> repo_idx, kind |-> kind, labels |-> None,
                                  per_page |-> remaining, raised |-> result.raised,
                                  items |-> result.items])
    /\ UNCHANGED <<i_repositories, max_issues_per_repo, include_unlabeled, issue_upstream,
                   discovered_issues, returned_issues>>
    /\ UNCHANGED not_issue_vars

\* _get_repository_issues returns without an unlabeled query.
SkipUnlabeled ==
    /\ ipc = "unlabeled"
    /\ ~(Len(issues) < max_issues_per_repo /\ include_unlabeled)
    /\ NextRepository(issues)
    /\ UNCHANGED <<i_repositories, max_issues_per_repo, include_unlabeled, issue_upstream,
                   last_call, discovered_issues, returned_issues>>
    /\ UNCHANGED not_issue_vars

\* After the repositories: filter, sort, store and return.
FinishDiscoverIssues ==
    /\ ipc = "filter"
    /\ ipc' = "issues_done"
    /\ discovered_issues' = _filter_and_prioritize_issues(all_issues)
    /\ returned_issues' = discovered_issues'
    /\ UNCHANGED <<i_repositories, max_issues_per_repo, include_unlabeled, issue_upstream,
                   repo_idx, batch_idx, issues, all_issues, last_call>>
    /\ UNCHANGED not_issue_vars

IssueNext ==
    \/ discover_issues
    \/ QueryLabelBatch
    \/ LeaveLabelBatches
    \/ QueryUnlabeled
    \/ SkipUnlabeled
    \/ FinishDiscoverIssues

\* issue.is_good_candidate is read.
EvaluateCandidate ==
    /\ probe_good = None
    /\ probe_good' = Some(is_good_candidate(probe))
    /\ UNCHANGED <<probe, not_probe_vars>>

\* A client method is called.
CallClient ==
    /\ cpc = "idle"
    /\ \E fn \in ClientMethods, aware \in BOOLEAN, offset \in UtcOffsets :
        /\ c_fn' = fn
        /\ datetimes' = IF aware THEN "aware" ELSE "naive"
        /\ utc_offset' = offset
    /\ attempt' = 1
    /\ cpc' = "check"
    /\ UNCHANGED <<c_now, c_log>>
    /\ UNCHANGED not_client_vars

\* self._check_rate_limits() at the head of an attempt.
CheckRateLimits ==
    /\ cpc = "check"
    /\ \E read \in QuotaReads :
        LET slept == _check_rate_limits(read, c_now, datetimes = "aware", utc_offset)
        IN  /\ c_log' = Append(c_log, [e |-> "read", at |-> c_now, read |-> read,
                                       kind |-> "none"])
            /\ c_now' = c_now + slept
    /\ cpc' = "upstream"
    /\ UNCHANGED <<c_fn, datetimes, utc_offset, attempt>>
    /\ UNCHANGED not_client_vars

\* The attempt's upstream call and what the retry decorator makes of it.
UpstreamCall ==
    /\ cpc = "upstream"
    /\ \E kind \in AnswerKinds :
        /\ c_log' = Append(c_log, [e |-> "call", at |-> c_now,
                                   read |-> CHOOSE r \in QuotaReads : ~r.ok, kind |-> kind])
        /\ cpc' = RetryStep(AttemptOutcome(c_fn, kind), attempt)
    /\ UNCHANGED <<c_fn, datetimes, utc_offset, c_now, attempt>>
    /\ UNCHANGED not_client_vars

\* The retry decorator sleeps and starts the next attempt.
Backoff ==
    /\ cpc = "backoff"
    /\ c_log' = Append(c_log, [e |-> "wait", at |-> c_now,
                               read |-> CHOOSE r \in QuotaReads : ~r.ok, kind |-> "none"])
    /\ c_now' = c_now + wait_exponential(attempt)
    /\ attempt' = attempt + 1
    /\ cpc' = "check"
    /\ UNCHANGED <<c_fn, datetimes, utc_offset>>
    /\ UNCHANGED not_client_vars

ClientNext ==
    \/ CallClient
    \/ CheckRateLimits
    \/ UpstreamCall
    \/ Backoff

\* main is called.
main ==
    /\ mpc = "idle"
    /\ \E token, auth_ok, llm, repos \in BOOLEAN, queries \in QueryCounts :
        /\ m_token' = token
        /\ m_auth_ok' = auth_ok
        /\ m_llm' = llm
        /\ m_repos' = repos
        /\ m_queries' = queries
    /\ mpc' = "token"
    /\ UNCHANGED <<m_found, m_searches, m_listings, exit_code>>
    /\ UNCHANGED not_main_vars

\* main returns.
Exit(code) ==
    /\ mpc' = "exited"
    /\ exit_code' = Some(code)

\* The check for GITHUB_TOKEN.
CheckToken ==
    /\ mpc = "token"
    /\ IF m_token THEN mpc' = "init" /\ UNCHANGED exit_code ELSE Exit(1)
    /\ UNCHANGED <<m_token, m_auth_ok, m_llm, m_repos, m_queries, m_found, m_searches,
                   m_listings>>
    /\ UNCHANGED not_main_vars

\* The components are built and get_authenticated_user() is called: its
\* exception ends main in the handler of Exception.
TestAuthentication ==
    /\ mpc = "init"
    /\ IF m_auth_ok THEN mpc' = "discovery" /\ UNCHANGED exit_code ELSE Exit(1)
    /\ UNCHANGED <<m_token, m_auth_ok, m_llm, m_repos, m_queries, m_found, m_searches,
                   m_listings>>
    /\ UNCHANGED not_main_vars

\* get_repositories_by_names or discover_repositories: one search for each
\* name or topic, whatever it finds.
RunRepositoryDiscovery ==
    /\ mpc = "discovery"
    /\ m_searches' = m_searches + m_queries
    /\ \E found \in FoundCounts : m_found' = found
    /\ mpc' = "found"
    /\ UNCHANGED <<m_token, m_auth_ok, m_llm, m_repos, m_queries, m_listings, exit_code>>
    /\ UNCHANGED not_main_vars

\* "No repositories found."
NoRepositories ==
    /\ mpc = "found"
    /\ m_found = 0
    /\ Exit(0)
    /\ UNCHANGED <<m_token, m_auth_ok, m_llm, m_repos, m_queries, m_found, m_searches,
                   m_listings>>
    /\ UNCHANGED not_main_vars

\* get_top_repositories over min(len(repositories), 10), then the call of
\* discover_issues: a call that binds lists the issues of every selected
\* repository; one that does not raises TypeError, which ends main in the
\* handler of Exception before an issue is listed and before IssueAssessor()
\* is reached.
CallDiscoverIssues ==
    /\ mpc = "found"
    /\ m_found > 0
    /\ IF Binds(discover_issues_parameters, discover_issues_keywords)
       THEN /\ mpc' = "issues"
            /\ m_listings' = m_listings + Min(m_found, 10)
            /\ UNCHANGED exit_code
       ELSE /\ Exit(1)
            /\ UNCHANGED m_listings
    /\ UNCHANGED <<m_token, m_auth_ok, m_llm, m_repos, m_queries, m_found, m_searches>>
    /\ UNCHANGED not_main_vars

MainNext ==
    \/ main
    \/ CheckToken
    \/ TestAuthentication
    \/ RunRepositoryDiscovery
    \/ NoRepositories
    \/ CallDiscoverIssues

\* assess_issues up to the submission of every issue's task.
assess_issues ==
    /\ apc = "idle"
    /\ \E input \in AssessInputs, workers \in MaxWorkersInputs, clients \in ClientSets :
        /\ assess_input' = input
        /\ pool_size' = workers
        /\ llm_clients' = clients
        /\ task' = [i \in 1..Len(input) |-> "pending"]
        /\ reply' = [i \in 1..Len(input) |-> None]
        /\ task_result' = [i \in 1..Len(input) |-> None]
    /\ apc' = "assessing"
    /\ assessments' = <<>>
    /\ UNCHANGED <<failed_numbers, assess_returned>>
    /\ UNCHANGED not_assess_vars

Assessing == {i \in 1..Len(task) : task[i] = "running"}

\* A pool thread takes the oldest queued task.
StartAssessment(i) ==
    /\ apc = "assessing"
    /\ task[i] = "pending"
    /\ \A j \in 1..(i - 1) : task[j] # "pending"
    /\ Cardinality(Assessing) < pool_size
    /\ task' = [task EXCEPT ![i] = "running"]
    /\ UNCHANGED <<apc, llm_clients, assess_input, pool_size, reply, task_result, assessments,
                   failed_numbers, assess_returned>>
    /\ UNCHANGED not_assess_vars

\* _assess_single_issue ends in its pool thread, on whatever the LLM
\* answered.
FinishAssessment(i) ==
    /\ apc = "assessing"
    /\ task[i] = "running"
    /\ \E answer \in Replies :
        /\ reply' = [reply EXCEPT ![i] = Some(answer)]
        /\ task_result' = [task_result EXCEPT
                             ![i] = _assess_single_issue(assess_input[i], answer, llm_clients)]
    /\ task' = [task EXCEPT ![i] = "finished"]
    /\ UNCHANGED <<apc, llm_clients, assess_input, pool_size, assessments, failed_numbers,
                   assess_returned>>
    /\ UNCHANGED not_assess_vars

\* One turn of the as_completed loop: the Assessment is appended, or the
\* failure is printed.
CollectAssessment(i) ==
    /\ apc = "assessing"
    /\ task[i] = "finished"
    /\ task' = [task EXCEPT ![i] = "collected"]
    /\ assessments' = assessments \o task_result[i]
    /\ failed_numbers' = IF task_result[i] = None
                         THEN failed_numbers \cup {assess_input[i].number}
                         ELSE failed_numbers
    /\ UNCHANGED <<apc, llm_clients, assess_input, pool_size, reply, task_result,
                   assess_returned>>
    /\ UNCHANGED not_assess_vars

\* After the loop: sort and return.
ReturnAssessments ==
    /\ apc = "assessing"
    /\ \A i \in 1..Len(task) : task[i] = "collected"
    /\ apc' = "assessed"
    /\ assessments' = SortByComposite(<<>>, assessments)
    /\ assess_returned' = Some(assessments')
    /\ UNCHANGED <<llm_clients, assess_input, pool_size, task, reply, task_result,
                   failed_numbers>>
    /\ UNCHANGED not_assess_vars

AssessNext ==
    \/ assess_issues
    \/ \E i \in 1..Len(task) : StartAssessment(i)
    \/ \E i \in 1..Len(task) : FinishAssessment(i)
    \/ \E i \in 1..Len(task) : CollectAssessment(i)
    \/ ReturnAssessments

\* The repository discoverer alone.
Spec == Init /\ [][Next]_vars

\* The issue discoverer alone.
IssueSpec == Init /\ [][IssueNext]_vars

\* is_good_candidate on one issue of ProbeIssues.
CandidateInit ==
    /\ RepoInit /\ IssueInit /\ ClientInit /\ MainInit /\ AssessInit /\ ScoreInit
    /\ SearchInit
    /\ probe \in ProbeIssues
    /\ probe_good = None
CandidateNext == EvaluateCandidate
CandidateSpec == CandidateInit /\ [][CandidateNext]_vars

\* One call of a client method.
ClientSpec == Init /\ [][ClientNext]_vars

\* One run of main.
MainSpec == Init /\ [][MainNext]_vars

\* One call of assess_issues.
AssessSpec == Init /\ [][AssessNext]_vars

\* search_repositories on one upstream result.
PageInit ==
    /\ RepoInit /\ IssueInit /\ ProbeInit /\ ClientInit /\ MainInit /\ AssessInit
    /\ ScoreInit
    /\ search_stream \in SearchStreams
    /\ search_per_page \in PerPageInputs
    /\ search_out = None
CallSearchRepositories ==
    /\ search_out = None
    /\ search_out' = Some(SearchLoop(search_stream, search_per_page, <<>>, 0))
    /\ UNCHANGED <<search_stream, search_per_page, not_search_vars>>
PageNext == CallSearchRepositories
PageSpec == PageInit /\ [][PageNext]_vars

\* One call of discover_repositories or one call of assess_issues: the two
\* thread pools of the program.
PoolNext ==
    \/ apc = "idle" /\ discover_repositories
    \/ \E i \in 1..Len(fut) : StartSearch(i)
    \/ \E i \in 1..Len(fut) : FinishSearch(i)
    \/ \E i \in 1..Len(fut) : CollectSearch(i)
    \/ FinishDiscovery
    \/ op = "idle" /\ assess_issues
    \/ \E i \in 1..Len(task) : StartAssessment(i)
    \/ \E i \in 1..Len(task) : FinishAssessment(i)
    \/ \E i \in 1..Len(task) : CollectAssessment(i)
    \/ ReturnAssessments
PoolSpec == Init /\ [][PoolNext]_vars

\* composite_score on one Assessment of valid scores.
CompositeInit ==
    /\ RepoInit /\ IssueInit /\ ProbeInit /\ ClientInit /\ MainInit /\ AssessInit
    /\ SearchInit
    /\ scored \in [complexity_score : ScoreGrid, clarity_score : ScoreGrid,
                   scope_score : ScoreGrid, feasibility_score : ScoreGrid]
    /\ scored_value = None
ReadCompositeScore ==
    /\ scored_value = None
    /\ scored_value' = Some(composite_score(scored))
    /\ UNCHANGED <<scored, not_score_vars>>
CompositeNext == ReadCompositeScore
CompositeSpec == CompositeInit /\ [][CompositeNext]_vars

\* --------------------------------------------------- repository claims
Done == op \in {"discover_done", "by_names_done"}
Names(repos) == {repos[i].full_name : i \in 1..Len(repos)}
FirstIndex(repos, name) ==
    CHOOSE i \in 1..Len(repos) :
        /\ repos[i].full_name = name
        /\ \A j \in 1..(i - 1) : repos[j].full_name # name

\* C1: the list discover_repositories returns holds each full_name at most
\* once, and the record it holds for a full_name is the first record of
\* that name in merge order (the order of all_repositories).
C1_DedupFirstWins ==
    op = "discover_done" =>
        /\ \A i, j \in 1..Len(returned_repos) :
               i # j => returned_repos[i].full_name # returned_repos[j].full_name
        /\ \A i \in 1..Len(returned_repos) :
               returned_repos[i] =
                   all_repositories[FirstIndex(all_repositories, returned_repos[i].full_name)]

\* Two searches returned different records of one full_name, the search
\* submitted last was merged first, and the name is in the result.
C1_Witness ==
    /\ op = "discover_done"
    /\ Len(fut_result) = 2
    /\ fut_result[1] # <<>>
    /\ fut_result[2] # <<>>
    /\ all_repositories = fut_result[2] \o fut_result[1]
    /\ \E i, j \in 1..Len(all_repositories) :
        /\ i < j
        /\ all_repositories[i].full_name = all_repositories[j].full_name
        /\ all_repositories[i] # all_repositories[j]
        /\ all_repositories[i] \in Range(returned_repos)

\* C2: no repository returned by discover_repositories or
\* get_repositories_by_names has has_issues = false, archived = true,
\* open_issues_count = 0 or stars < 10.
C2_ViabilityFilter ==
    Done =>
        \A i \in 1..Len(returned_repos) :
            /\ returned_repos[i].has_issues
            /\ ~returned_repos[i].archived
            /\ returned_repos[i].open_issues_count # 0
            /\ returned_repos[i].stars >= 10

\* The list the repository filter was given.
FilterInput == IF op = "discover_done" THEN unique_repos ELSE repositories

C4_SupportedLanguage ==
    op = "discover_done" =>
        \A i \in 1..Len(returned_repos) :
            returned_repos[i].language \in {Some(l) : l \in SUPPORTED_LANGUAGES}

\* The priority as C5 words it: stars x activity x min(open / max(stars, 1), 1),
\* activity 1.0, 0.8, 0.5, 0.2 by the whole days since the last push (in
\* tenths, as a fraction).  Without a pushed_at the code's key stands.
ClaimedActivity(days) ==
    IF days <= 7 THEN 10 ELSE IF days <= 30 THEN 8 ELSE IF days <= 90 THEN 5 ELSE 2

ClaimedPriority(r) ==
    IF r.pushed_at = None THEN repo_priority_score(r)
    ELSE LET act == ClaimedActivity(r.pushed_at[1] \div TicksPerDay)
         IN  IF r.open_issues_count >= Max(r.stars, 1)
             THEN [num |-> r.stars * act, den |-> 1]
             ELSE [num |-> r.stars * act * r.open_issues_count, den |-> Max(r.stars, 1)]

\* Whether element i of repos comes before element j in a stable,
\* descending order by ClaimedPriority.
ComesBefore(repos, i, j) ==
    \/ KeyLess(ClaimedPriority(repos[j]), ClaimedPriority(repos[i]))
    \/ KeyEq(ClaimedPriority(repos[j]), ClaimedPriority(repos[i])) /\ i < j

PlaceOf(repos, i) == 1 + Cardinality({j \in 1..Len(repos) : j # i /\ ComesBefore(repos, j, i)})

\* C5: get_top_repositories(limit) returns the first limit repositories of
\* the discovery result in non-increasing order of the claimed priority,
\* repositories of equal priority in their order in the discovery result.
C5_TopByPriorityStable ==
    top_limit # None =>
        /\ Len(top_repos) = Min(top_limit[1], Len(discovered_repos))
        /\ \A i \in 1..Len(discovered_repos) :
               PlaceOf(discovered_repos, i) <= top_limit[1] =>
                   top_repos[PlaceOf(discovered_repos, i)] = discovered_repos[i]

\* The call cut a result of three to two repositories of equal priority,
\* which kept their order, and left out a first repository of lower priority
\* pushed over a week ago.
C5_Witness ==
    /\ top_limit = Some(2)
    /\ Len(discovered_repos) = 3
    /\ top_repos = <<discovered_repos[2], discovered_repos[3]>>
    /\ discovered_repos[2] # discovered_repos[3]
    /\ KeyEq(repo_priority_score(discovered_repos[2]), repo_priority_score(discovered_repos[3]))
    /\ discovered_repos[1].pushed_at # None
    /\ discovered_repos[1].pushed_at[1] > Days(7)

\* r differs from q in pushed_at only, and was pushed no earlier.
MoreRecentTwin(r, q) ==
    /\ r.pushed_at # None
    /\ q.pushed_at # None
    /\ r.pushed_at[1] <= q.pushed_at[1]
    /\ [r EXCEPT !.pushed_at = q.pushed_at] = q

\* C6: of two repositories of the discovery result that differ in pushed_at
\* only, the one pushed more recently has a priority at least the other's,
\* and get_top_repositories puts it behind the other only at equal priority.
C6_RecencyMonotone ==
    /\ \A i, j \in 1..Len(discovered_repos) :
           MoreRecentTwin(discovered_repos[i], discovered_repos[j]) =>
               ~KeyLess(repo_priority_score(discovered_repos[i]), repo_priority_score(discovered_repos[j]))
    /\ \A p, q \in 1..Len(top_repos) :
           (p < q /\ MoreRecentTwin(top_repos[q], top_repos[p])) =>
               KeyEq(repo_priority_score(top_repos[q]), repo_priority_score(top_repos[p]))

\* The discovery result holds a repository pushed 60 days ago before its twin
\* pushed 20 days ago, and the ranking put the twin first.
C6_Witness ==
    /\ Len(discovered_repos) >= 2
    /\ Len(top_repos) >= 2
    /\ MoreRecentTwin(discovered_repos[2], discovered_repos[1])
    /\ discovered_repos[1].pushed_at = Some(Days(60))
    /\ discovered_repos[2].pushed_at = Some(Days(20))
    /\ top_repos[1] = discovered_repos[2]
    /\ top_repos[2] = discovered_repos[1]

\* ------------------------------------------------------- issue claims
\* The conditions C7 lists, but for the one on the body.
ClaimedCandidateButBody(issue) ==
    /\ issue.state = "open"
    /\ issue.assignees = <<>>
    /\ \E k \in 1..Len(issue.labels) : lower(issue.labels[k]) \in good_labels
    /\ ~\E k \in 1..Len(issue.labels) : lower(issue.labels[k]) \in bad_labels
    /\ issue.comments <= 10
    /\ Len(issue.title) > 0

BodyAbsentOrAtLeast(issue, n) == issue.body = None \/ Len(issue.body[1]) >= n
BodyAbsentEmptyOrAtLeast(issue, n) ==
    issue.body = None \/ Len(issue.body[1]) = 0 \/ Len(issue.body[1]) >= n

\* C7, as stated: is_good_candidate is true exactly when the state is open,
\* there is no assignee, a lower-cased label is a good label, none is a bad
\* label, comments <= 10, the title is non-empty, and the body is absent or
\* at least 50 characters long.
C7_CandidateIffBodyAbsentOrLong ==
    probe_good # None =>
        (probe_good[1] <=> (ClaimedCandidateButBody(probe) /\ BodyAbsentOrAtLeast(probe, 50)))

\* C7, amended: is_good_candidate is true exactly when the state is open,
\* there is no assignee, a lower-cased label is a good label, none is a bad
\* label, comments <= 10, the title is non-empty, and the body is absent,
\* empty or at least 50 characters long.
C7_CandidateIffBodyEmptyOrLong ==
    probe_good # None =>
        (probe_good[1] <=>
            (ClaimedCandidateButBody(probe) /\ BodyAbsentEmptyOrAtLeast(probe, 50)))

\* An open, unassigned issue labelled "good first issue" and "wontfix", with
\* 3 comments, a title and a body of 60 characters, was found no candidate.
C7_Witness ==
    /\ probe_good = Some(FALSE)
    /\ probe.labels = <<L_good_first_issue, L_wontfix>>
    /\ probe.state = "open"
    /\ probe.assignees = <<>>
    /\ probe.comments = 3
    /\ probe.title = T_fix_parser_crash
    /\ probe.body = Some(Xs(60))

\* The keywords C8 lists.
ClaimedKeywords == {K_design, K_discuss, K_rfc, K_proposal, K_breaking, K_architecture,
                    K_backwards_compatibility}

\* The conditions C8 lists, but for the one on the body: a good candidate
\* aged 1 to 365 whole days, a title of 10 characters or more, and no listed
\* keyword in the lower-cased title, a space and the body.
ClaimedSuitableButBody(issue) ==
    /\ is_good_candidate(issue)
    /\ Days(1) <= issue.created_age
    /\ issue.created_age < Days(366)
    /\ Len(issue.title) >= 10
    /\ \A keyword \in ClaimedKeywords :
           ~Contains(lower(issue.title \o <<" ">>
                           \o (IF issue.body = None THEN <<>> ELSE issue.body[1])), keyword)

\* C8, as stated: every issue discover_issues returns is a good candidate of
\* age 1 to 365 days, with a title of at least 10 characters, a body that is
\* absent or at least 20 characters long, and none of the listed keywords.
C8_ReturnedSuitableBodyAbsentOrLong ==
    ipc = "issues_done" =>
        \A k \in 1..Len(returned_issues) :
            /\ ClaimedSuitableButBody(returned_issues[k])
            /\ BodyAbsentOrAtLeast(returned_issues[k], 20)

\* C8, amended: every issue discover_issues returns is a good candidate of
\* age 1 to 365 days, with a title of at least 10 characters, a body that is
\* absent, empty or at least 20 characters long, and none of the listed
\* keywords.
C8_ReturnedSuitableBodyEmptyOrLong ==
    ipc = "issues_done" =>
        \A k \in 1..Len(returned_issues) :
            /\ ClaimedSuitableButBody(returned_issues[k])
            /\ BodyAbsentEmptyOrAtLeast(returned_issues[k], 20)

\* discover_issues returned an issue, and left out a good candidate it had
\* collected whose title holds "rfc" in capitals.
C8_Witness ==
    /\ ipc = "issues_done"
    /\ returned_issues # <<>>
    /\ \E k \in 1..Len(all_issues) :
        /\ all_issues[k].title = T_rfc_new_parser
        /\ is_good_candidate(all_issues[k])
        /\ all_issues[k] \notin Range(returned_issues)

\* C9: the list discover_issues returns holds each issue id at most once.
C9_ReturnedIdsDistinct ==
    ipc = "issues_done" =>
        \A j, k \in 1..Len(returned_issues) :
            j # k => returned_issues[j].id # returned_issues[k].id

\* C10: every issue get_repository_issues returns for a query with a label
\* filter carries at least one label of the filter.
C10_LabelFilterHonoured ==
    (last_call # None /\ last_call[1].labels # None) =>
        \A k \in 1..Len(last_call[1].items) :
            \E j \in 1..Len(last_call[1].items[k].labels) :
                last_call[1].items[k].labels[j] \in Range(last_call[1].labels[1])

\* The score C11 orders by, in hundredths: 0.5, plus 0.3 for a label of
\* bug, critical or urgent, else 0.2 for enhancement, feature or good first
\* issue; plus 0.1 up to 7 days of age, else 0.05 up to 30; plus 0.1 for 1 to
\* 3 comments, minus 0.2 above 10; within 0 and 1.  The second component is
\* the rounding of the double additions.
ClaimedScore(issue) ==
    LET labelled(S) == \E k \in 1..Len(issue.labels) : lower(issue.labels[k]) \in S
        l == IF labelled({L_bug, L_critical, L_urgent}) THEN 30
             ELSE IF labelled({L_enhancement, L_feature, L_good_first_issue}) THEN 20 ELSE 0
        a == IF issue.created_age < Days(8) THEN 10
             ELSE IF issue.created_age < Days(31) THEN 5 ELSE 0
        c == IF issue.comments \in 1..3 THEN 10 ELSE IF issue.comments > 10 THEN -20 ELSE 0
    IN  <<Min(100, Max(0, 50 + l + a + c)), RoundingUlps(<<l, a, c>>)>>

\* The issues discover_issues aggregated that pass the suitability filter,
\* in aggregation order.
Survivors == SelectSeq(all_issues, _is_issue_suitable)

\* Whether element i of scores comes before element j in a stable,
\* descending order.
ScoreBefore(scores, i, j) ==
    \/ ScoreLess(scores[j], scores[i])
    \/ scores[j] = scores[i] /\ i < j

ScorePlace(scores, i) ==
    1 + Cardinality({j \in 1..Len(scores) : j # i /\ ScoreBefore(scores, j, i)})

\* C11: discover_issues returns the surviving issues in non-increasing order
\* of priority_score, issues of equal priority_score in the order in which
\* they were aggregated.
C11_SortedByScoreStable ==
    ipc = "issues_done" =>
        LET survivors == Survivors
            scores == [i \in 1..Len(survivors) |-> ClaimedScore(survivors[i])]
        IN  /\ Len(returned_issues) = Len(survivors)
            /\ \A i \in 1..Len(survivors) :
                   returned_issues[ScorePlace(scores, i)] = survivors[i]
            /\ \A k \in 1..(Len(returned_issues) - 1) :
                   ~ScoreLess(ClaimedScore(returned_issues[k]),
                              ClaimedScore(returned_issues[k + 1]))

\* An issue aggregated second and scoring higher was returned first, ahead of
\* two issues of equal score.
C11_Witness ==
    /\ ipc = "issues_done"
    /\ Len(returned_issues) = 3
    /\ returned_issues[1] = Survivors[2]
    /\ ScoreLess(ClaimedScore(returned_issues[2]), ClaimedScore(returned_issues[1]))
    /\ ClaimedScore(returned_issues[2]) = ClaimedScore(returned_issues[3])

\* ------------------------------------------------ failure claims
\* The orders in which n searches can be merged.
MergeOrders(n) == {f \in [1..n -> 1..n] : \A i, j \in 1..n : i # j => f[i] # f[j]}

\* What search i contributes: the valid records among the first
\* min(max_repos_per_query, 100) of its answer when it succeeded, nothing
\* when it failed.
Contribution(i) ==
    IF upstream[i].ok
    THEN SelectSeq(Take(upstream[i].items, Min(max_repos_per_query, 100)), LAMBDA d : d.valid)
    ELSE <<>>

\* C12: whatever searches fail, discover_repositories returns, every search
\* has run to its end and been collected, and the result is the filtered
\* deduplication of the merged records of exactly the searches that
\* succeeded; while it runs it is never stuck.
C12_FailedSearchesIsolated ==
    /\ op = "discover" =>
           \/ \E i \in 1..Len(fut) : fut[i] \in {"running", "finished"}
           \/ \E i \in 1..Len(fut) : fut[i] = "pending" /\ Cardinality(Running) < max_workers
           \/ \A i \in 1..Len(fut) : fut[i] = "collected"
    /\ op = "discover_done" =>
           /\ \A i \in 1..Len(fut) : fut[i] = "collected" /\ fut_result[i] = Contribution(i)
           /\ \E order \in MergeOrders(Len(fut)) :
                  all_repositories = Concat([k \in 1..Len(fut) |-> Contribution(order[k])])
           /\ returned_repos = _filter_repositories(_deduplicate_repositories(all_repositories))

\* Of two searches the first failed and the second found a repository, which
\* discover_repositories returned.
C12_Witness ==
    /\ op = "discover_done"
    /\ Len(fut) = 2
    /\ ~upstream[1].ok
    /\ upstream[2].ok
    /\ returned_repos # <<>>
    /\ returned_repos = _filter_repositories(Contribution(2))

\* ------------------------------------------------- client claims
Calls == SelectSeq(c_log, LAMBDA ev : ev.e = "call")
CallEnded == cpc \in {"returned", "returned_empty", "raised", "retry_error"}

\* What C13 says of a call that is tried at most n times: an attempt follows
\* another only after a rate-limit error and a wait during which time
\* passes, there are at most n attempts, a rate-limit error before the n-th
\* attempt is retried, the call fails once n attempts met a rate-limit
\* error, and it returns a result only from an attempt that met none.
RetriedWithin(n) ==
    /\ Len(Calls) <= n
    /\ \A k \in 1..(Len(Calls) - 1) : Calls[k].kind = "rate_limited"
    /\ \A k \in 2..Len(c_log) :
           (c_log[k].e = "call" /\ \E j \in 1..(k - 1) : c_log[j].e = "call") =>
               \E j \in 1..(k - 1) :
                   /\ c_log[j].e = "wait"
                   /\ c_log[j + 1].at > c_log[j].at
                   /\ \A i \in j..(k - 1) : c_log[i].e # "call"
    /\ (Len(Calls) > 0 /\ Calls[Len(Calls)].kind = "rate_limited") =>
           IF Len(Calls) < n
           THEN cpc \in {"backoff", "check", "upstream"}
           ELSE cpc = "retry_error"
    /\ cpc = "retry_error" =>
           Len(Calls) = n /\ \A k \in 1..n : Calls[k].kind = "rate_limited"
    /\ cpc = "returned" => Calls[Len(Calls)].kind = "ok"
    /\ cpc \in {"returned_empty", "raised"} => Calls[Len(Calls)].kind = "error"
    /\ CallEnded => c_log[Len(c_log)].e = "call"

\* C13, as stated: on rate-limit errors the call is retried up to 3 times,
\* that is tried up to 4 times, with a wait before each retry, then fails.
C13_RetriedThreeTimes == RetriedWithin(1 + 3)

\* C13, amended: on rate-limit errors the call is tried up to 3 times, that
\* is retried up to 2 times, with a wait before each retry, then fails.
C13_TriedThreeTimes == RetriedWithin(3)

\* Three attempts met a rate-limit error, with two waits between them, and
\* the call failed.
C13_Witness ==
    /\ cpc = "retry_error"
    /\ Len(Calls) = 3
    /\ Len(SelectSeq(c_log, LAMBDA ev : ev.e = "wait")) = 2

\* C14: every upstream call attempt, retries included, comes after a read of
\* the remaining quota made for that attempt, and when the read showed the
\* core quota below the buffer of 100 with the reset still ahead, the call is
\* issued no earlier than the reset.
C14_QuotaReadHonoured ==
    \A k \in 1..Len(c_log) :
        c_log[k].e = "call" =>
            \E j \in 1..(k - 1) :
                /\ c_log[j].e = "read"
                /\ \A i \in j..(k - 1) : c_log[i].e # "call"
                /\ (/\ c_log[j].read.ok
                    /\ c_log[j].read.core_remaining < 100
                    /\ c_log[j].read.core_reset_in > 0) =>
                       c_log[k].at >= c_log[j].at + c_log[j].read.core_reset_in

\* A step in which _get_repository_issues queries the upstream.
IsLabelQuery == ipc = "batches" /\ batch_idx' = batch_idx + 1
IsUnlabeledQuery ==
    ipc = "unlabeled" /\ include_unlabeled /\ Len(issues) < max_issues_per_repo

\* C15: when listing a repository's issues fails with an error other than a
\* rate-limit error, get_repository_issues raises nothing and returns an empty
\* sequence, the issues collected so far are kept, and discovery goes on with
\* the next label batch, or after the unlabeled query with the next
\* repository; discover_issues ends having gone through every repository.
C15_ErrorYieldsEmptyAndContinues ==
    /\ [][((IsLabelQuery \/ IsUnlabeledQuery) /\ last_call'[1].kind = "error") =>
            /\ ~last_call'[1].raised
            /\ last_call'[1].items = <<>>
            /\ IsLabelQuery =>
                   /\ issues' = issues
                   /\ all_issues' = all_issues
                   /\ ipc' = "batches"
                   /\ repo_idx' = repo_idx
            /\ IsUnlabeledQuery =>
                   /\ all_issues' = all_issues \o issues
                   /\ repo_idx' = repo_idx + 1
                   /\ ipc' = IF repo_idx < Len(i_repositories) THEN "batches" ELSE "filter"]_vars
    /\ [](ipc \in {"filter", "issues_done"} => repo_idx = Len(i_repositories) + 1)

\* The last query of a run failed with such an error, after the first
\* repository's issue had been collected, and the issue was returned.
C15_Witness ==
    /\ ipc = "issues_done"
    /\ Len(i_repositories) = 2
    /\ last_call # None
    /\ last_call[1].kind = "error"
    /\ last_call[1].repo = 2
    /\ returned_issues # <<>>

\* C16: no record get_repository_issues returns is a pull request, it
\* returns at most per_page records, and pull requests it skips do not count
\* toward per_page: an answered query returns the first per_page records of
\* the repository's open issues that are no pull requests.
C16_PullRequestsSkipped ==
    last_call # None =>
        LET call == last_call[1]
            listed == issue_upstream[call.repo]
        IN  /\ \A k \in 1..Len(call.items) : ~call.items[k].pull_request
            /\ Len(call.items) <= call.per_page
            /\ call.kind = "ok" =>
                   \E picked \in SUBSET (1..Len(listed)) :
                       /\ \A k \in picked : ~listed[k].pull_request
                       /\ \A k \in 1..Len(listed) :
                              (k \notin picked /\ ~listed[k].pull_request) =>
                                  /\ Cardinality(picked) = call.per_page
                                  /\ \A j \in picked : j < k
                       /\ Len(call.items) = Cardinality(picked)
                       /\ \A k \in picked :
                              call.items[Cardinality({j \in picked : j <= k})] = listed[k]

\* A query with per_page 1 on a repository that lists a pull request and
\* then an issue returned the issue.
C16_Witness ==
    /\ last_call # None
    /\ last_call[1].kind = "ok"
    /\ last_call[1].per_page = 1
    /\ Len(issue_upstream[last_call[1].repo]) = 2
    /\ issue_upstream[last_call[1].repo][1].pull_request
    /\ last_call[1].items = <<issue_upstream[last_call[1].repo][2]>>

\* What the caller of discover_repositories gets: it never raises, and
\* returns the list.
DiscoverOutcome == [raised |-> FALSE, value |-> returned_repos]

\* What the caller gets when every search succeeds and matches nothing.
EmptySearchOutcome ==
    [raised |-> FALSE, value |-> _filter_repositories(_deduplicate_repositories(<<>>))]

\* C17: a run of discover_repositories whose topic searches all failed does
\* not give its caller what a run gives whose searches succeeded but matched
\* no repository.
C17_FailureToldFromEmpty ==
    (/\ op = "discover_done"
     /\ \A i \in 1..Len(upstream) : ~upstream[i].ok) =>
        DiscoverOutcome # EmptySearchOutcome

\* --------------------------------------------------- main claims
\* C18: a run of main without a GitHub token, with a failing
\* authenticated-user check, or without an LLM client ends with a failure
\* exit, and before any repository search or issue listing was issued.
C18_ConfigErrorsAbortEarly ==
    (mpc = "exited" /\ (~m_token \/ ~m_auth_ok \/ ~m_llm)) =>
        /\ exit_code # Some(0)
        /\ m_searches = 0
        /\ m_listings = 0

\* --------------------------------------------- assessment claims
\* The replies that cannot be turned into a valid assessment: no JSON
\* object, invalid JSON, a missing required key, a score out of range.
Unusable(answer) ==
    /\ ~answer.raised
    /\ \/ answer.text \in NoObjectTexts \cup InvalidJsonTexts \cup {<<LB, RB>>}
       \/ \E k \in 1..Len(answer.text) :
            /\ answer.text[k].ch = "members"
            /\ answer.text[k].data \in MissingKeyData \cup OutOfRangeData

Answered(i) == task[i] \in {"finished", "collected"}

\* C19: for every reply that cannot be turned into a valid assessment the
\* parser returns the fallback Assessment (the five scores 5.0, confidence
\* 0.5, model_used "fallback"), and the issue has an assessment in what
\* assess_issues returns.
C19_UnusableReplyGivesFallback ==
    \A i \in 1..Len(task) :
        (Answered(i) /\ Unusable(reply[i][1])) =>
            /\ task_result[i] # None
            /\ \A f \in ScoreFields : task_result[i][1][f] = 50
            /\ task_result[i][1].confidence = 5
            /\ task_result[i][1].model_used = "fallback"
            /\ apc = "assessed" =>
                \E k \in 1..Len(assess_returned[1]) :
                    assess_returned[1][k].issue_id = assess_input[i].id

\* The places of what assess_issues returned that carry the i-th issue's id.
ReturnedFor(i) ==
    {k \in 1..Len(assess_returned[1]) : assess_returned[1][k].issue_id = assess_input[i].id}

\* C20: whichever tasks raise, assess_issues returns a list with exactly
\* one Assessment for each issue whose task succeeded and none for an issue
\* whose task raised, and every Assessment carries an input issue's id.
C20_OneAssessmentPerSucceededIssue ==
    apc = "assessed" =>
        /\ assess_returned # None
        /\ \A i \in 1..Len(assess_input) :
            Cardinality(ReturnedFor(i)) = IF task_result[i] = None THEN 0 ELSE 1
        /\ \A k \in 1..Len(assess_returned[1]) :
            \E i \in 1..Len(assess_input) : assess_returned[1][k].issue_id = assess_input[i].id

\* assess_issues has returned, one task having raised and one succeeded.
C20_Witness ==
    /\ apc = "assessed"
    /\ \E i, j \in 1..Len(assess_input) :
        /\ reply[i][1].raised
        /\ task_result[j] # None
        /\ Len(assess_returned[1]) = 1

\* C21: what assess_issues returns is in non-increasing order of
\* composite_score, in whatever order the tasks completed.
C21_SortedByComposite ==
    apc = "assessed" =>
        LET returned == assess_returned[1]
        IN  \A k \in 1..(Len(returned) - 1) :
                ~ScoreLess(composite_score(returned[k]), composite_score(returned[k + 1]))

\* assess_issues has returned the later issue's Assessment first, its
\* composite_score being the higher.
C21_Witness ==
    /\ apc = "assessed"
    /\ Len(assess_returned[1]) = 2
    /\ assess_returned[1][1].issue_id = assess_input[2].id
    /\ ScoreLess(composite_score(assess_returned[1][2]), composite_score(assess_returned[1][1]))

\* Whether a composite score lies in [1, 10].
InOneToTen(c) ==
    /\ c[1] > 1000 \/ (c[1] = 1000 /\ c[2] >= 0)
    /\ c[1] < 10000 \/ (c[1] = 10000 /\ c[2] <= 0)

\* C22: for an Assessment whose complexity, clarity, scope and feasibility
\* scores lie in [1, 10] the composite_score lies in [1, 10].
C22_CompositeInOneToTen ==
    (scored_value # None /\ \A f \in DOMAIN scored : scored[f] \in ScoreRange) =>
        InOneToTen(scored_value[1])

\* composite_score was read at its lowest: complexity 10, the others 1.
C22_Witness ==
    /\ scored_value = Some(<<1000, 0>>)
    /\ scored.complexity_score = 100
    /\ scored.feasibility_score = 10

\* ---------------------------------------------------- cap claims
\* C24: the issues collected for a repository never number more than
\* max_issues_per_repo, and a label-batch query or an unlabeled query is
\* issued only while they number fewer.
C24_CapHonoured ==
    /\ [](Len(issues) <= max_issues_per_repo)
    /\ [][last_call' # last_call => Len(issues) < max_issues_per_repo]_vars

\* The cap was reached before the label batches were through, with the
\* unlabeled query asked for.
C24_Witness ==
    /\ ipc = "unlabeled"
    /\ include_unlabeled
    /\ Len(issues) = max_issues_per_repo
    /\ batch_idx <= Len(_get_label_batches)
    /\ Len(issue_upstream[repo_idx]) > max_issues_per_repo

\* --------------------------------------------------- pool claims
\* The steps of a task: queued, started, ended, processed.
TaskSteps ==
    {<<"pending", "running">>, <<"running", "finished">>, <<"finished", "collected">>}

\* The futures of one call keep their number and each moves one step at a
\* time.
StepsInOrder(before, after) ==
    Len(before) = Len(after) =>
        \A i \in 1..Len(before) : before[i] # after[i] => <<before[i], after[i]>> \in TaskSteps

\* C23: during discover_repositories and during assess_issues at most
\* max_workers tasks run at the same time, and every submitted task is
\* started once, ends once and is processed once, none being left when the
\* call returns.
C23_BoundedPoolEachTaskOnce ==
    /\ [](op = "discover" => Cardinality(Running) <= max_workers)
    /\ [](apc = "assessing" => Cardinality(Assessing) <= pool_size)
    /\ [](op = "discover_done" => \A i \in 1..Len(fut) : fut[i] = "collected")
    /\ [](apc = "assessed" => \A i \in 1..Len(task) : task[i] = "collected")
    /\ [](apc \in {"assessing", "assessed"} =>
            Len(assessments) + Cardinality(failed_numbers)
                = Cardinality({i \in 1..Len(task) : task[i] = "collected"}))
    /\ [][StepsInOrder(fut, fut') /\ StepsInOrder(task, task')]_vars

\* The search pool is full and a search waits for a thread.
C23_Witness ==
    /\ op = "discover"
    /\ Cardinality(Running) = max_workers
    /\ \E i \in 1..Len(fut) : fut[i] = "pending"

\* --------------------------------------------------- page claims
\* C25: search_repositories returns the first min(per_page, n) records of
\* an upstream result of n records, in the upstream's order, and pulls no
\* more than per_page records from it.
C25_FirstPageOnly ==
    search_out # None =>
        /\ search_out[1].repositories
             = SubSeq(search_stream, 1, Min(search_per_page, Len(search_stream)))
        /\ search_out[1].pulled <= search_per_page

\* --------------------------------------------------- merge claims
\* The merged list is the results of the collected searches, each once, in
\* the order they were collected.
MergedOnce ==
    LET collected == {i \in 1..Len(fut) : fut[i] = "collected"}
    IN  \E order \in [1..Cardinality(collected) -> collected] :
            /\ \A a, b \in DOMAIN order : a # b => order[a] # order[b]
            /\ all_repositories = Concat([k \in DOMAIN order |-> fut_result[order[k]]])

\* A step that changes the merged list is the orchestrating thread's, on a
\* search that has ended, and appends that search's records.
MergedByOrchestrator ==
    all_repositories' # all_repositories =>
        \E i \in 1..Len(fut) :
            /\ fut[i] = "finished"
            /\ fut' = [fut EXCEPT ![i] = "collected"]
            /\ all_repositories' = all_repositories \o fut_result[i]

\* A step of a pool thread writes the records of its own search only.
OwnRecordsOnly ==
    (op = "discover" /\ fut_result' # fut_result) =>
        \E i \in 1..Len(fut) :
            /\ fut[i] = "running"
            /\ fut'[i] = "finished"
            /\ \A j \in 1..Len(fut) : j # i => fut_result'[j] = fut_result[j]
            /\ all_repositories' = all_repositories

\* C26: under every interleaving of the topic searches, the records of each
\* search are added to the merged list once, by the orchestrating thread and
\* after the search has ended; a pool thread writes neither the merged list
\* nor another search's records; the merge loses and doubles no record.
C26_MergeByOrchestratorOnly ==
    /\ [](op \in {"discover", "discover_done"} => MergedOnce)
    /\ [][op = "discover" => MergedByOrchestrator]_vars
    /\ [][OwnRecordsOnly]_vars

\* Two searches that found different records were merged, the second
\* before the first.
C26_Witness ==
    /\ op = "discover_done"
    /\ Len(fut) = 2
    /\ fut_result[1] # <<>>
    /\ fut_result[2] # <<>>
    /\ fut_result[1] # fut_result[2]
    /\ all_repositories = fut_result[2] \o fut_result[1]

\* The full names of a list of repositories.
FullNames(repos) == {repos[k].full_name : k \in 1..Len(repos)}

\* What discover_repositories returns when the searches are collected in
\* that order.
ReturnedInOrder(order) ==
    _filter_repositories(_deduplicate_repositories(
        Concat([k \in 1..Len(fut) |-> Contribution(order[k])])))

\* C27: for fixed results of the topic searches, discover_repositories
\* returns the same set of full names in whatever order the searches
\* complete, also when two topics give records of one full name that differ
\* in other fields.
C27_NamesIndependentOfOrder ==
    op = "discover_done" =>
        \A order \in MergeOrders(Len(fut)) :
            FullNames(ReturnedInOrder(order)) = FullNames(returned_repos)

\* C28: a run of main whose repository discovery returned a repository goes
\* on to list the issues of the selected repositories: the call main makes
\* to discover_issues is one that discover_issues accepts.
C28_IssueDiscoveryRuns ==
    (mpc = "exited" /\ m_found > 0) =>
        /\ Binds(discover_issues_parameters, discover_issues_keywords)
        /\ m_listings > 0

\* No full name occurs twice in a list of repositories.
EachNameOnce(repos) ==
    \A a, b \in 1..Len(repos) : repos[a].full_name = repos[b].full_name => a = b

\* C29: what get_repositories_by_names returns, and the discovery result it
\* stores, holds each full name at most once, also when a name is given
\* twice.
C29_ByNamesEachNameOnce ==
    op = "by_names_done" => EachNameOnce(returned_repos) /\ EachNameOnce(discovered_repos)

\* --------------------------------------------------- label claims
\* C30: no issue that discover_issues returns carries a label of the issue
\* discoverer's BAD_LABELS: the label sets of is_good_candidate are the
\* discoverer's GOOD_LABELS and BAD_LABELS.
C30_NoConfiguredBadLabel ==
    ipc = "issues_done" =>
        /\ \A k \in 1..Len(returned_issues) :
            issue_labels(returned_issues[k]) \cap BAD_LABELS = {}
        /\ good_labels = GOOD_LABELS
        /\ bad_labels = BAD_LABELS

====
